---- MODULE Spec2Model ----
(***************************************************************************)
(* Model of the retrieval core of field-ops-ai: the LLM provider chain     *)
(* (services/llm.py), the RAG agent orchestrator (services/agent.py), the  *)
(* ingestion pipeline (services/document_processor.py,                    *)
(* services/vector_store.py, api/v1/endpoints/documents.py) and the four   *)
(* retrieval tools (services/tools/).                                      *)
(*                                                                         *)
(* Python strings are sequences of one-character strings, so that lower(), *)
(* "in", strip() and slicing are computed rather than assumed.  Optional   *)
(* values (x | None) are sequences of length 0 or 1.                       *)
(***************************************************************************)
EXTENDS Integers, Sequences, FiniteSets, TLC

VARIABLES
    \* ---- settings and environment of the LLM provider chain / agent ----
    configured,     \* provider -> BOOLEAN: the provider's API key is set
    constructFails, \* candidate index -> BOOLEAN: building its client raises
    qdrantUrl,      \* BOOLEAN: settings.qdrant_url is set
    \* ---- RAGAgent object ----
    executor,       \* "none" | "set"            (self._executor)
    currentModel,   \* Optional candidate index   (self._current_model)
    llmResult,      \* outcome of the last get_llm() call made by create_agent
    \* ---- one invoke() call ----
    pc,             \* "idle" | "running" | "returned" | "raised"
    query,          \* the query of the call in progress
    history,        \* the conversation_history of the call in progress
    steps,          \* intermediate_steps: tools invoked so far, in order
    loopEnd,        \* how the executor's ainvoke ended: [kind |-> "none"], or
                    \* "finished" (with output), "timeout", "exception" (with text)
    response,       \* Optional AgentResponse returned by invoke
    escaped,        \* Optional name of the exception that left invoke
    \* ---- vector index, document records, background jobs ----
    points,         \* the Qdrant collection: point id -> payload
    docs,           \* document id -> Document row (status "absent" before upload,
                    \* "deleted" once the row is deleted)
    job,            \* document id -> state of its process_document_background task
    toolOut,        \* Optional outcome of the last retrieval tool call
    calls,          \* document id -> the VectorStoreService call in progress on it
    fnCall,         \* a call of a pure method: its arguments and Optional result
    conversations   \* phone number -> the ConversationState row (Optional
                    \* messages_json) and every message added so far

agentVars == <<configured, constructFails, qdrantUrl, executor, currentModel,
               llmResult, pc, query, history, steps, loopEnd, response, escaped>>

indexVars == <<points, docs, job, toolOut, calls, fnCall, conversations>>

vars == <<agentVars, indexVars>>

-----------------------------------------------------------------------------
(* Optional values *)
None == <<>>
Some(x) == <<x>>

(* Bounds of the model *)
MaxSteps == 2          \* tool calls explored per query

-----------------------------------------------------------------------------
(* Python string operations *)

UpperChars == <<"A","B","C","D","E","F","G","H","I","J","K","L","M",
                "N","O","P","Q","R","S","T","U","V","W","X","Y","Z">>
LowerChars == <<"a","b","c","d","e","f","g","h","i","j","k","l","m",
                "n","o","p","q","r","s","t","u","v","w","x","y","z">>

\* str.lower() on one character
LowerChar(c) ==
    IF \E i \in 1..26 : UpperChars[i] = c
    THEN LowerChars[CHOOSE i \in 1..26 : UpperChars[i] = c]
    ELSE c

\* str.lower()
Lower(s) == [i \in 1..Len(s) |-> LowerChar(s[i])]

\* sub in s
Contains(s, sub) ==
    \E i \in 0..(Len(s) - Len(sub)) : SubSeq(s, i + 1, i + Len(sub)) = sub

\* Python index normalisation of a slice bound i for a string of length n
PyIndex(i, n) ==
    IF i < 0 THEN (IF n + i < 0 THEN 0 ELSE n + i)
    ELSE IF i > n THEN n ELSE i

\* s[a:b]
Slice(s, a, b) == SubSeq(s, PyIndex(a, Len(s)) + 1, PyIndex(b, Len(s)))

\* s.startswith(prefix)
StartsWith(s, prefix) ==
    Len(prefix) <= Len(s) /\ SubSeq(s, 1, Len(prefix)) = prefix

\* s.rfind(sub, a, b): the highest 0-based position of sub inside s[a:b], or -1
RFind(s, sub, a, b) ==
    LET lo == PyIndex(a, Len(s))
        hi == PyIndex(b, Len(s))
        hits == { p \in lo..(hi - Len(sub)) : SubSeq(s, p + 1, p + Len(sub)) = sub }
    IN IF hits = {} THEN -1
       ELSE CHOOSE p \in hits : \A q \in hits : q <= p

Whitespace == {" ", "\n", "\t", "\r"}

\* s.strip()
Strip(s) ==
    LET keep == { i \in 1..Len(s) : s[i] \notin Whitespace }
    IN IF keep = {} THEN <<>>
       ELSE SubSeq(s, CHOOSE i \in keep : \A j \in keep : i <= j,
                      CHOOSE i \in keep : \A j \in keep : j <= i)

\* s.replace(old, new), old non-empty: non-overlapping occurrences, left to right
RECURSIVE Replace(_, _, _)
Replace(s, old, new) ==
    IF Len(s) < Len(old) THEN s
    ELSE IF SubSeq(s, 1, Len(old)) = old
    THEN new \o Replace(SubSeq(s, Len(old) + 1, Len(s)), old, new)
    ELSE <<Head(s)>> \o Replace(Tail(s), old, new)

\* s.split("\n")
SplitLines(s) ==
    LET nl == { i \in 1..Len(s) : s[i] = "\n" }
        \* position of the k-th newline; 0 before the first, Len(s)+1 after the last
        at(k) == IF k = 0 THEN 0
                 ELSE IF k > Cardinality(nl) THEN Len(s) + 1
                 ELSE CHOOSE p \in nl : Cardinality({ q \in nl : q < p }) = k - 1
    IN [ k \in 1..(Cardinality(nl) + 1) |-> SubSeq(s, at(k - 1) + 1, at(k) - 1) ]

Digits == <<"0","1","2","3","4","5","6","7","8","9">>

DigitValue(c) == (CHOOSE i \in 1..10 : Digits[i] = c) - 1

IsDigit(c) == \E i \in 1..10 : Digits[i] = c

RECURSIVE DigitsValue(_)
DigitsValue(s) ==
    IF s = <<>> THEN 0
    ELSE DigitsValue(SubSeq(s, 1, Len(s) - 1)) * 10 + DigitValue(s[Len(s)])

\* int(s): Some(n) for optional surrounding whitespace, an optional sign and
\* decimal digits; None where int() raises ValueError
ParseInt(s) ==
    LET t == Strip(s)
        signed == t # <<>> /\ t[1] \in {"+", "-"}
        body == IF signed THEN Tail(t) ELSE t
    IN IF body = <<>> \/ \E i \in 1..Len(body) : ~IsDigit(body[i])
       THEN None
       ELSE Some(IF signed /\ t[1] = "-" THEN 0 - DigitsValue(body) ELSE DigitsValue(body))

\* str(n) for n >= 0
RECURSIVE Decimal(_)
Decimal(n) ==
    IF n < 10 THEN <<Digits[n + 1]>>
    ELSE Decimal(n \div 10) \o <<Digits[(n % 10) + 1]>>

-----------------------------------------------------------------------------
(* services/llm.py *)

Providers == {"anthropic", "openai", "google"}

\* FALLBACK_ORDER = [CLAUDE_HAIKU, GPT_4O_MINI, GEMINI_FLASH]
FALLBACK_ORDER ==
    << [provider |-> "anthropic", display_name |-> "haiku",
        cost_per_million_input |-> 250, cost_per_million_output |-> 1250],
       [provider |-> "openai", display_name |-> "gpt4o-mini",
        cost_per_million_input |-> 150, cost_per_million_output |-> 600],
       [provider |-> "google", display_name |-> "gemini-flash",
        cost_per_million_input |-> 75, cost_per_million_output |-> 300] >>

Candidates == 1..Len(FALLBACK_ORDER)

\* LLMService._is_provider_configured
is_provider_configured(provider) ==
    IF provider \in Providers THEN configured[provider] ELSE FALSE

\* LLMService._create_llm: TRUE when a client object is returned, FALSE when
\* the call raises (missing key, or the client constructor raises).
create_llm_ok(i) ==
    /\ configured[FALLBACK_ORDER[i].provider]
    /\ ~constructFails[i]

\* get_llm_loop with the fallback flag computed against the wrong index base
RECURSIVE get_llm_loop_late_flag(_, _)
get_llm_loop_late_flag(i, fallback_reason) ==
    IF i > Len(FALLBACK_ORDER)
    THEN [raised |-> TRUE, error |-> "LLMServiceError"]
    ELSE IF ~is_provider_configured(FALLBACK_ORDER[i].provider)
    THEN get_llm_loop_late_flag(i + 1,
            IF i = 1 THEN Some([kind |-> "not configured", model |-> i])
                     ELSE fallback_reason)
    ELSE IF create_llm_ok(i)
    THEN [raised |-> FALSE,
          model |-> i,
          fallback_used |-> (i > 2),
          fallback_reason |-> IF i > 2 THEN fallback_reason ELSE None]
    ELSE get_llm_loop_late_flag(i + 1, Some([kind |-> "error", model |-> i]))

\* get_llm_loop that gives up at the first construction failure
RECURSIVE get_llm_loop_stop_on_error(_, _)
get_llm_loop_stop_on_error(i, fallback_reason) ==
    IF i > Len(FALLBACK_ORDER)
    THEN [raised |-> TRUE, error |-> "LLMServiceError"]
    ELSE IF ~is_provider_configured(FALLBACK_ORDER[i].provider)
    THEN get_llm_loop_stop_on_error(i + 1,
            IF i = 1 THEN Some([kind |-> "not configured", model |-> i])
                     ELSE fallback_reason)
    ELSE IF create_llm_ok(i)
    THEN [raised |-> FALSE,
          model |-> i,
          fallback_used |-> (i > 1),
          fallback_reason |-> IF i > 1 THEN fallback_reason ELSE None]
    ELSE [raised |-> TRUE, error |-> "LLMServiceError"]

\* get_llm_loop that records a missing credential for every candidate
RECURSIVE get_llm_loop_record_each(_, _)
get_llm_loop_record_each(i, fallback_reason) ==
    IF i > Len(FALLBACK_ORDER)
    THEN [raised |-> TRUE, error |-> "LLMServiceError"]
    ELSE IF ~is_provider_configured(FALLBACK_ORDER[i].provider)
    THEN get_llm_loop_record_each(i + 1, Some([kind |-> "not configured", model |-> i]))
    ELSE IF create_llm_ok(i)
    THEN [raised |-> FALSE,
          model |-> i,
          fallback_used |-> (i > 1),
          fallback_reason |-> IF i > 1 THEN fallback_reason ELSE None]
    ELSE get_llm_loop_record_each(i + 1, Some([kind |-> "error", model |-> i]))

\* The for loop of LLMService.get_llm from candidate i on (1-based; the
\* code's enumerate index is i - 1), with the fallback_reason accumulated so
\* far.  A reason is [kind, model]: "<display_name> not configured" or
\* "<display_name> error: <exception>".
RECURSIVE get_llm_loop(_, _)
get_llm_loop(i, fallback_reason) ==
    IF i > Len(FALLBACK_ORDER)
    THEN [raised |-> TRUE, error |-> "LLMServiceError"]
    ELSE IF ~is_provider_configured(FALLBACK_ORDER[i].provider)
    THEN get_llm_loop(i + 1,
            IF i = 1 THEN Some([kind |-> "not configured", model |-> i])
                     ELSE fallback_reason)
    ELSE IF create_llm_ok(i)
    THEN [raised |-> FALSE,
          model |-> i,
          fallback_used |-> (i > 1),
          fallback_reason |-> IF i > 1 THEN fallback_reason ELSE None]
    ELSE get_llm_loop(i + 1, Some([kind |-> "error", model |-> i]))

\* LLMService.get_llm
get_llm == get_llm_loop(1, None)

\* calculate_cost_euro, in units of 1e-11 EUR: the rates above are in
\* thousandths of a USD per million tokens and usd_to_eur is 92 hundredths.
calculate_cost_euro(tokens_input, tokens_output, model) ==
    ( tokens_input * FALLBACK_ORDER[model].cost_per_million_input
    + tokens_output * FALLBACK_ORDER[model].cost_per_million_output ) * 92

-----------------------------------------------------------------------------
(* services/document_processor.py: chunking *)

\* DocumentProcessor.CHUNK_SIZE
CHUNK_SIZE == 1000

\* DocumentProcessor.CHUNK_OVERLAP
CHUNK_OVERLAP == 150

\* the "[Page " prefix test and the marker's prefix / suffix removed by replace
PAGE_PREFIX == <<"[","P","a","g","e"," ">>

\* the sentence boundaries tried in order
BOUNDARIES == << <<"."," ">>, <<".","\n">>, <<"!"," ">>, <<"!","\n">>, <<"?"," ">>, <<"?","\n">> >>

\* The for loop of chunk_text over lines[k..]: drops page-marker lines,
\* tracks current_page and current_section, accumulates processed_text.
RECURSIVE scan_lines(_, _, _, _, _)
scan_lines(lines, k, current_page, current_section, processed_text) ==
    IF k > Len(lines)
    THEN [page |-> current_page, section |-> current_section, text |-> processed_text]
    ELSE LET line == lines[k]
             parsed == IF StartsWith(line, PAGE_PREFIX)
                       THEN ParseInt(Replace(Replace(line, PAGE_PREFIX, <<>>), <<"]">>, <<>>))
                       ELSE None
         IN IF parsed # None
            THEN scan_lines(lines, k + 1, parsed[1], current_section, processed_text)
            ELSE LET section ==
                        IF StartsWith(line, <<"#","#"," ">>)
                        THEN Strip(Replace(line, <<"#","#"," ">>, <<>>))
                        ELSE IF StartsWith(line, <<"#"," ">>)
                        THEN Strip(Replace(line, <<"#"," ">>, <<>>))
                        ELSE current_section
                 IN scan_lines(lines, k + 1, current_page, section,
                               processed_text \o line \o <<"\n">>)

\* the for / else over the boundaries: the cut position `end` of one window
RECURSIVE find_boundary(_, _, _, _, _)
find_boundary(text, start, chunk_size, end, b) ==
    IF b > Len(BOUNDARIES)
    THEN LET pos == RFind(text, <<" ">>, start + chunk_size \div 2, end)
         IN IF pos # -1 THEN pos + 1 ELSE end
    ELSE LET pos == RFind(text, BOUNDARIES[b], start + chunk_size \div 2, end)
         IN IF pos # -1 THEN pos + Len(BOUNDARIES[b])
            ELSE find_boundary(text, start, chunk_size, end, b + 1)

\* window_end that takes `end` as the last position of the window
window_end_inclusive(text, start, chunk_size) ==
    IF start + chunk_size < Len(text)
    THEN find_boundary(text, start, chunk_size, start + chunk_size, 1) + 1
    ELSE start + chunk_size + 1

\* `end` of the window that starts at `start`, after the boundary search
window_end(text, start, chunk_size) ==
    IF start + chunk_size < Len(text)
    THEN find_boundary(text, start, chunk_size, start + chunk_size, 1)
    ELSE start + chunk_size

\* next_start that begins the next window one character after the overlap
next_start_skip(text, end, overlap) ==
    IF end < Len(text) THEN end - overlap + 1 ELSE Len(text)

\* next_start that steps back by twice the overlap
next_start_double_overlap(text, end, overlap) ==
    IF end < Len(text) THEN end - 2 * overlap ELSE Len(text)

\* the start of the window after the one that ended at `end`
next_start(text, end, overlap) ==
    IF end < Len(text) THEN end - overlap ELSE Len(text)

\* More iterations than a run of the while loop that ends can make: `start`
\* decides the rest of the run, so a run that ends never has the same
\* start twice, and its starts lie between -(len + chunk_size + overlap)
\* and len.
ChunkFuel(text, chunk_size, overlap) ==
    2 * (Len(text) + chunk_size + overlap) + 2

\* The windows [start, end) of the while loop of chunk_text from `start`
\* on, in order.  fuel bounds the iterations evaluated; the loop itself has
\* no such bound.
RECURSIVE chunk_spans(_, _, _, _, _)
RECURSIVE chunk_spans_after(_, _, _, _, _, _)
chunk_spans(text, start, chunk_size, overlap, fuel) ==
    IF ~(start < Len(text)) \/ fuel = 0 THEN <<>>
    ELSE chunk_spans_after(text, start, window_end(text, start, chunk_size),
                           chunk_size, overlap, fuel)

\* one iteration of the while loop once `end` is computed: the window
\* [start, end), then the loop from the next start on
chunk_spans_after(text, start, end, chunk_size, overlap, fuel) ==
    << [start |-> start, end |-> end] >>
    \o chunk_spans(text, next_start(text, end, overlap), chunk_size, overlap, fuel - 1)

\* the while loop of chunk_text ends on this text
chunk_loop_ends(text, chunk_size, overlap) ==
    Len(chunk_spans(text, 0, chunk_size, overlap, ChunkFuel(text, chunk_size, overlap)))
        < ChunkFuel(text, chunk_size, overlap)

\* text[start:end].strip() of a window
span_content(text, span) == Strip(Slice(text, span.start, span.end))

\* The Chunk objects appended over the windows spans[k..]: a window whose
\* stripped text is empty appends nothing and uses no chunk_index.
RECURSIVE chunk_windows(_, _, _, _, _, _)
chunk_windows(text, spans, k, chunk_index, page, section) ==
    IF k > Len(spans) THEN <<>>
    ELSE IF span_content(text, spans[k]) # <<>>
    THEN << [content |-> span_content(text, spans[k]), chunk_index |-> chunk_index,
             page_number |-> Some(page),
             section_title |-> IF section = <<>> THEN None ELSE Some(section)] >>
         \o chunk_windows(text, spans, k + 1, chunk_index + 1, page, section)
    ELSE chunk_windows(text, spans, k + 1, chunk_index, page, section)

\* processed_text.strip() after the line scan
cleaned_text(text) == Strip(scan_lines(SplitLines(text), 1, 1, <<>>, <<>>).text)

\* chunk_text after the line scan ended with `scan`
chunk_scanned(scan, processed, chunk_size, overlap) ==
    chunk_windows(processed,
                  chunk_spans(processed, 0, chunk_size, overlap,
                              ChunkFuel(processed, chunk_size, overlap)),
                  1, 0, scan.page, scan.section)

\* DocumentProcessor.chunk_text, where its loop ends
chunk_text(text, chunk_size, overlap) ==
    IF text = <<>> THEN <<>>
    ELSE chunk_scanned(scan_lines(SplitLines(text), 1, 1, <<>>, <<>>),
                       cleaned_text(text), chunk_size, overlap)

-----------------------------------------------------------------------------
(* services/vector_store.py *)

\* str(org_id) of the organizations: UUID strings, all of one length
OrgIds == { <<"o","1">>, <<"o","2">> }

\* str(document_id) of the documents: UUID strings, all of one length
DocIds == { <<"d","1">>, <<"d","2">> }

\* a point id made of the chunk index alone
PointId_chunk_index_only(document_id, chunk_index) == Decimal(chunk_index)

\* point_id = f"{document_id}_{chunk_index}"
PointId(document_id, chunk_index) == document_id \o <<"_">> \o Decimal(chunk_index)

EmptyPoints == [id \in {} |-> 0]

MSG_UPSERT == <<"F","a","i","l","e","d"," ","t","o"," ","u","p","s","e","r","t"," ","c","h","u","n","k","s",":"," ">>

MSG_DELETE == <<"F","a","i","l","e","d"," ","t","o"," ","d","e","l","e","t","e"," ","d","o","c","u","m","e","n","t",":"," ">>

MSG_QDRANT == <<"Q","D","R","A","N","T","_","U","R","L"," ","i","s"," ","n","o","t"," ","c","o","n","f","i","g","u","r","e","d">>

MSG_OPENAI == <<"O","P","E","N","A","I","_","A","P","I","_","K","E","Y"," ","i","s"," ","n","o","t"," ","c","o","n","f","i","g","u","r","e","d">>

\* What the embedding and Qdrant calls of one operation do: "ok", or
\* "embed_error" (the OpenAI client raises), "unexpected_response" (the
\* Qdrant client raises UnexpectedResponse), "connection_error" (the Qdrant
\* client raises another exception); text is str(e).  A Qdrant call that
\* raises has changed nothing in the collection.
StoreEnvs(texts) ==
    { [kind |-> "ok", text |-> <<>>] }
    \cup [kind : {"embed_error", "unexpected_response", "connection_error"}, text : texts]

\* VectorStoreService.__init__ with EmbeddingService.__init__: None, or the
\* ValueError raised
vector_store_init ==
    IF ~qdrantUrl THEN Some([type |-> "ValueError", text |-> MSG_QDRANT])
    ELSE IF ~configured["openai"] THEN Some([type |-> "ValueError", text |-> MSG_OPENAI])
    ELSE None

\* the PointStruct list of upsert_chunks as id -> payload; a later chunk
\* with the same chunk_index replaces an earlier one
build_points(org_id, document_id, chunks) ==
    LET ids == { PointId(document_id, chunks[i].chunk_index) : i \in 1..Len(chunks) }
        last(id) == CHOOSE i \in 1..Len(chunks) :
                       /\ PointId(document_id, chunks[i].chunk_index) = id
                       /\ \A j \in 1..Len(chunks) :
                             PointId(document_id, chunks[j].chunk_index) = id => j <= i
    IN [ id \in ids |->
           [org_id |-> org_id,
            document_id |-> document_id,
            chunk_index |-> chunks[last(id)].chunk_index,
            page_number |-> chunks[last(id)].page_number,
            section_title |-> chunks[last(id)].section_title,
            content_raw |-> chunks[last(id)].content] ]

\* an id not yet in the collection, derived from id
RECURSIVE FreshId(_, _)
FreshId(pts, id) ==
    IF id \notin DOMAIN pts THEN id ELSE FreshId(pts, id \o <<"+">>)

\* client.upsert that adds a point beside an existing one with the same id
client_upsert_insert(pts, new) ==
    [ id \in (DOMAIN pts) \cup { FreshId(pts, n) : n \in DOMAIN new } |->
        IF id \in DOMAIN pts THEN pts[id]
        ELSE new[CHOOSE n \in DOMAIN new : FreshId(pts, n) = id] ]

\* client.upsert: every point of the batch is inserted or overwritten by id
client_upsert(pts, new) ==
    [ id \in (DOMAIN pts) \cup (DOMAIN new) |->
        IF id \in DOMAIN new THEN new[id] ELSE pts[id] ]

\* upsert_chunks that sends the batch point by point and stops at the failure
upsert_chunks_partial(pts, org_id, document_id, chunks, env) ==
    IF chunks = <<>>
    THEN [points |-> pts, raised |-> None, count |-> 0]
    ELSE IF env.kind = "embed_error"
    THEN [points |-> pts, raised |-> Some([type |-> "APIError", text |-> env.text]),
          count |-> 0]
    ELSE IF env.kind = "unexpected_response"
    THEN [points |-> client_upsert(pts, build_points(org_id, document_id, <<Head(chunks)>>)),
          raised |-> Some([type |-> "VectorStoreError", text |-> MSG_UPSERT \o env.text]),
          count |-> 0]
    ELSE IF env.kind = "connection_error"
    THEN [points |-> client_upsert(pts, build_points(org_id, document_id, <<Head(chunks)>>)),
          raised |-> Some([type |-> "ResponseHandlingException", text |-> env.text]),
          count |-> 0]
    ELSE [points |-> client_upsert(pts, build_points(org_id, document_id, chunks)),
          raised |-> None,
          count |-> Cardinality(DOMAIN build_points(org_id, document_id, chunks))]

\* VectorStoreService.upsert_chunks: the collection afterwards, the exception
\* raised (if any) and the returned count
upsert_chunks(pts, org_id, document_id, chunks, env) ==
    IF chunks = <<>>
    THEN [points |-> pts, raised |-> None, count |-> 0]
    ELSE IF env.kind = "embed_error"
    THEN [points |-> pts, raised |-> Some([type |-> "APIError", text |-> env.text]),
          count |-> 0]
    ELSE IF env.kind = "unexpected_response"
    THEN [points |-> pts,
          raised |-> Some([type |-> "VectorStoreError", text |-> MSG_UPSERT \o env.text]),
          count |-> 0]
    ELSE IF env.kind = "connection_error"
    THEN [points |-> pts,
          raised |-> Some([type |-> "ResponseHandlingException", text |-> env.text]),
          count |-> 0]
    ELSE [points |-> client_upsert(pts, build_points(org_id, document_id, chunks)),
          raised |-> None,
          count |-> Len(chunks)]

\* delete_document whose filter has the document_id condition only
delete_document_any_org(pts, org_id, document_id, env) ==
    IF env.kind = "unexpected_response"
    THEN [points |-> pts,
          raised |-> Some([type |-> "VectorStoreError", text |-> MSG_DELETE \o env.text])]
    ELSE IF env.kind = "connection_error"
    THEN [points |-> pts,
          raised |-> Some([type |-> "ResponseHandlingException", text |-> env.text])]
    ELSE [points |-> [ id \in { i \in DOMAIN pts : pts[i].document_id # document_id }
                       |-> pts[id] ],
          raised |-> None]

\* VectorStoreService.delete_document: removes the points whose payload has
\* both the org_id and the document_id
delete_document(pts, org_id, document_id, env) ==
    IF env.kind = "unexpected_response"
    THEN [points |-> pts,
          raised |-> Some([type |-> "VectorStoreError", text |-> MSG_DELETE \o env.text])]
    ELSE IF env.kind = "connection_error"
    THEN [points |-> pts,
          raised |-> Some([type |-> "ResponseHandlingException", text |-> env.text])]
    ELSE [points |-> [ id \in { i \in DOMAIN pts :
                                 ~(pts[i].org_id = org_id /\ pts[i].document_id = document_id) }
                       |-> pts[id] ],
          raised |-> None]

-----------------------------------------------------------------------------
(* services/document_processor.py: the pipeline *)

MSG_NO_TEXT == <<"N","o"," ","t","e","x","t"," ","c","o","u","l","d"," ","b","e"," ","e","x","t","r","a","c","t","e","d"," ","f","r","o","m"," ","d","o","c","u","m","e","n","t">>

MSG_NO_CHUNKS == <<"D","o","c","u","m","e","n","t"," ","p","r","o","d","u","c","e","d"," ","n","o"," ","t","e","x","t"," ","c","h","u","n","k","s">>

MSG_UNEXPECTED == <<"U","n","e","x","p","e","c","t","e","d"," ","e","r","r","o","r",":"," ">>

MSG_UNSUPPORTED == <<"U","n","s","u","p","p","o","r","t","e","d"," ","f","i","l","e"," ","t","y","p","e",":"," ">>

\* the message prefix of the ExtractionError each extractor raises
ExtractorPrefix ==
    [ pdf  |-> <<"F","a","i","l","e","d"," ","t","o"," ","e","x","t","r","a","c","t"," ","t","e","x","t"," ","f","r","o","m"," ","P","D","F",":"," ">>,
      docx |-> <<"F","a","i","l","e","d"," ","t","o"," ","e","x","t","r","a","c","t"," ","t","e","x","t"," ","f","r","o","m"," ","D","O","C","X",":"," ">>,
      text |-> <<"F","a","i","l","e","d"," ","t","o"," ","e","x","t","r","a","c","t"," ","t","e","x","t"," ","f","r","o","m"," ","b","y","t","e","s",":"," ">>,
      sheet |-> <<"F","a","i","l","e","d"," ","t","o"," ","e","x","t","r","a","c","t"," ","s","p","r","e","a","d","s","h","e","e","t",":"," ">> ]

\* The uploaded files of the model.  ext is the filename's extension;
\* extracted is what the format's extractor makes of the bytes: Some(text),
\* or None when it raises ExtractionError with inner text errtext.
Files ==
    [ corrupt |-> [ext |-> <<"p","d","f">>, extracted |-> None, errtext |-> <<"E","O","F">>],
      garbled |-> [ext |-> <<"c","s","v">>, extracted |-> None, errtext |-> <<>>],
      empty   |-> [ext |-> <<"p","d","f">>, extracted |-> Some(<<>>), errtext |-> <<>>],
      blank   |-> [ext |-> <<"p","d","f">>,
                   extracted |-> Some(<<"[","P","a","g","e"," ","1","]","\n"," ">>),
                   errtext |-> <<>>],
      manual  |-> [ext |-> <<"p","d","f">>,
                   extracted |-> Some(<<"[","P","a","g","e"," ","2","]","\n","#","#"," ","T","o","r","q","u","e","\n","T","i","g","h","t","e","n"," ","t","o"," ","3","5"," ","N","m",".">>),
                   errtext |-> <<>>],
      long    |-> [ext |-> <<"t","x","t">>,
                   extracted |-> Some([i \in 1..1005 |-> IF i % 100 = 0 THEN "x" ELSE "a"]),
                   errtext |-> <<>>] ]

FileNames == DOMAIN Files

\* DocumentProcessor.extract_text: Some(text) returned, or the
\* DocumentProcessingError raised
extract_text(file) ==
    LET kind == IF file.ext = <<"p","d","f">> THEN "pdf"
                ELSE IF file.ext = <<"d","o","c","x">> THEN "docx"
                ELSE IF file.ext \in { <<"t","x","t">>, <<"m","d">>, <<"h","t","m","l">>, <<"h","t","m">> }
                THEN "text"
                ELSE IF file.ext \in { <<"x","l","s","x">>, <<"c","s","v">> } THEN "sheet"
                ELSE "unsupported"
    IN IF kind = "unsupported"
       THEN [text |-> None,
             raised |-> Some([type |-> "DocumentProcessingError",
                              text |-> MSG_UNSUPPORTED \o file.ext])]
       ELSE IF file.extracted = None
       THEN [text |-> None,
             raised |-> Some([type |-> "DocumentProcessingError",
                              text |-> ExtractorPrefix[kind] \o file.errtext])]
       ELSE [text |-> file.extracted, raised |-> None]

\* self.chunk_text(extraction_result.text) with the default chunk_size and
\* overlap, tabulated for the files of the model
DefaultChunks ==
    [ f \in FileNames |->
        IF Files[f].extracted = None THEN <<>>
        ELSE chunk_text(Files[f].extracted[1], CHUNK_SIZE, CHUNK_OVERLAP) ]

FailedResult(message) ==
    [success |-> FALSE, chunk_count |-> 0, error_message |-> Some(message)]

\* process_document after upsert_chunks ended with `up`
process_document_indexed(chunks, up) ==
    IF up.raised # None
    THEN [returned |-> None, raised |-> up.raised, points |-> up.points]
    ELSE [returned |-> Some([success |-> TRUE, chunk_count |-> Len(chunks),
                             error_message |-> None]),
          raised |-> None, points |-> up.points]

\* process_document from the chunk list on; self.vector_store builds the
\* VectorStoreService at its first use
process_document_chunks(pts, org_id, document_id, chunks, env) ==
    IF chunks = <<>>
    THEN [returned |-> Some(FailedResult(MSG_NO_CHUNKS)), raised |-> None, points |-> pts]
    ELSE IF vector_store_init # None
    THEN [returned |-> None, raised |-> vector_store_init, points |-> pts]
    ELSE process_document_indexed(chunks,
                                  upsert_chunks(pts, org_id, document_id, chunks, env))

\* process_document after extract_text ended with `extraction`
process_document_extracted(pts, org_id, document_id, filename, env, extraction) ==
    IF extraction.raised # None
    THEN [returned |-> None, raised |-> extraction.raised, points |-> pts]
    ELSE IF extraction.text[1] = <<>>
    THEN [returned |-> Some(FailedResult(MSG_NO_TEXT)), raised |-> None, points |-> pts]
    ELSE process_document_chunks(pts, org_id, document_id, DefaultChunks[filename], env)

\* The try body of process_document: the ProcessingResult returned from it
\* (if any), the exception raised in it (if any), the collection afterwards.
process_document_try(pts, org_id, document_id, filename, env) ==
    process_document_extracted(pts, org_id, document_id, filename, env,
                               extract_text(Files[filename]))

\* the except clauses of process_document without except Exception
process_document_except_no_catch_all(body) ==
    IF body.raised = None
    THEN [result |-> body.returned, escaped |-> None, points |-> body.points]
    ELSE IF body.raised[1].type \in {"VectorStoreError", "DocumentProcessingError"}
    THEN [result |-> Some(FailedResult(body.raised[1].text)),
          escaped |-> None, points |-> body.points]
    ELSE [result |-> None, escaped |-> body.raised, points |-> body.points]

\* the except clauses of process_document applied to the outcome of its try
\* body
process_document_except(body) ==
    IF body.raised = None
    THEN [result |-> body.returned, escaped |-> None, points |-> body.points]
    ELSE IF body.raised[1].type \in {"VectorStoreError", "DocumentProcessingError"}
    THEN [result |-> Some(FailedResult(body.raised[1].text)),
          escaped |-> None, points |-> body.points]
    ELSE [result |-> Some(FailedResult(MSG_UNEXPECTED \o body.raised[1].text)),
          escaped |-> None, points |-> body.points]

\* DocumentProcessor.process_document: the ProcessingResult returned, the
\* exception that leaves the call (if any), the collection afterwards
process_document(pts, org_id, document_id, filename, env) ==
    process_document_except(process_document_try(pts, org_id, document_id, filename, env))

\* DocumentProcessor.delete_document_data: VectorStoreError becomes
\* DocumentProcessingError, any other exception passes through
delete_document_data(pts, org_id, document_id, env) ==
    LET del == delete_document(pts, org_id, document_id, env) IN
    IF del.raised # None /\ del.raised[1].type = "VectorStoreError"
    THEN [points |-> del.points,
          raised |-> Some([type |-> "DocumentProcessingError",
                           text |-> <<"F","a","i","l","e","d"," ","t","o"," ","d","e","l","e","t","e"," ","d","o","c","u","m","e","n","t"," ","d","a","t","a",":"," ">> \o del.raised[1].text])]
    ELSE del

-----------------------------------------------------------------------------
(* Document rows and background tasks before any upload *)

NoDocument ==
    [status |-> "absent", org_id |-> <<>>, file |-> "none",
     chunk_count |-> 0, error_message |-> None]

NoJob ==
    [pc |-> "none", org_id |-> <<>>, file |-> "none", result |-> None, raised |-> None]

\* no VectorStoreService call in progress
NoCall ==
    [op |-> "none", pc |-> "idle", org_id |-> <<>>, chunks |-> <<>>,
     written |-> 0, removed |-> 0, env |-> "none", raised |-> None]

\* no pure method called
\* no ConversationState row for any phone number
PhoneNumbers == { "+391", "+392" }
NoConversations == [p \in PhoneNumbers |-> [state |-> None, added |-> <<>>]]

NoFnCall == [fn |-> "none"]

IndexIdle ==
    /\ points = EmptyPoints
    /\ docs = [d \in DocIds |-> NoDocument]
    /\ job = [d \in DocIds |-> NoJob]
    /\ toolOut = None
    /\ calls = [d \in DocIds |-> NoCall]
    /\ fnCall = NoFnCall
    /\ conversations = NoConversations

-----------------------------------------------------------------------------
(* services/agent.py *)

\* AGENT_TIMEOUT_SECONDS: the deadline asyncio.wait_for puts on the executor
AGENT_TIMEOUT_SECONDS == 360

\* AgentExecutor(max_iterations=10)
max_iterations == 10

FALLBACK_MESSAGE == <<"I","n","f","o"," ","n","o","t"," ","f","o","u","n","d","."," ","T","r","y"," ","r","e","p","h","r","a","s","i","n","g"," ","o","r"," ","c","o","n","t","a","c","t"," ","t","e","c","h","n","i","c","a","l"," ","s","u","p","p","o","r","t",".">>

\* the answer of the except TimeoutError branch
TIMEOUT_MESSAGE == <<"T","i","m","e","o","u","t","."," ","T","r","y"," ","a","g","a","i","n"," ","i","n"," ","a"," ","f","e","w"," ","m","i","n","u","t","e","s",".">>

\* error="Timeout"
TIMEOUT_ERROR == <<"T","i","m","e","o","u","t">>

\* error="Agent not initialized"
NOT_INITIALIZED_ERROR == <<"A","g","e","n","t"," ","n","o","t"," ","i","n","i","t","i","a","l","i","z","e","d">>

NOT_FOUND == <<"n","o","t"," ","f","o","u","n","d">>
NO_INFORMATION == <<"n","o"," ","i","n","f","o","r","m","a","t","i","o","n">>

\* names of the tools RAGAgent._create_tools builds
ToolNames == {"semantic_search", "keyword_search", "grep_documents", "get_document_section"}

\* RAGAgent._create_tools: every tool builds a VectorStoreService, which
\* raises ValueError without QDRANT_URL and builds an EmbeddingService, which
\* raises ValueError without OPENAI_API_KEY.
create_tools_ok == qdrantUrl /\ configured["openai"]

\* RAGAgent.create_agent: the new (_executor, _current_model), the get_llm
\* outcome, and the exception that leaves create_agent, if any.
create_agent ==
    LET llm_result == get_llm IN
    IF llm_result.raised
    THEN [raised |-> Some("LLMServiceError"), executor |-> executor,
          currentModel |-> currentModel, llmResult |-> Some(llm_result)]
    ELSE IF ~create_tools_ok
    THEN [raised |-> Some("ValueError"), executor |-> executor,
          currentModel |-> Some(llm_result.model), llmResult |-> Some(llm_result)]
    ELSE [raised |-> None, executor |-> "set",
          currentModel |-> Some(llm_result.model), llmResult |-> Some(llm_result)]

\* RAGAgent._format_chat_history: the turns injected into the prompt
RECURSIVE format_chat_history(_)
format_chat_history(conversation_history) ==
    IF conversation_history = <<>> THEN <<>>
    ELSE LET msg == Head(conversation_history)
             rest == format_chat_history(Tail(conversation_history))
         IN IF msg.role \in {"user", "assistant"}
            THEN <<[type |-> msg.role, content |-> msg.content]>> \o rest
            ELSE rest

\* _extract_tools_used that keeps the tool of the last step only
extract_tools_used_last_only(intermediate_steps) ==
    IF intermediate_steps = <<>> THEN {}
    ELSE { intermediate_steps[Len(intermediate_steps)] }

\* RAGAgent._extract_tools_used: the set of tool names of the steps; the
\* list built from it has some order of that set.
extract_tools_used(intermediate_steps) ==
    { intermediate_steps[i] : i \in 1..Len(intermediate_steps) }

ListsOfSet(S) ==
    { l \in [1..Cardinality(S) -> S] : \A i, j \in 1..Cardinality(S) : l[i] = l[j] => i = j }

\* RAGAgent._estimate_tokens
estimate_tokens(text) == Len(text) \div 4

RECURSIVE history_tokens(_)
history_tokens(conversation_history) ==
    IF conversation_history = <<>> THEN 0
    ELSE estimate_tokens(Head(conversation_history).content)
         + history_tokens(Tail(conversation_history))

\* is_fallback without the lower() calls
is_fallback_case_sensitive(answer) ==
    \/ answer = FALLBACK_MESSAGE
    \/ Contains(answer, NOT_FOUND)
    \/ Contains(answer, NO_INFORMATION)

\* the is_fallback expression of invoke
is_fallback(answer) ==
    \/ answer = FALLBACK_MESSAGE
    \/ Contains(Lower(answer), NOT_FOUND)
    \/ Contains(Lower(answer), NO_INFORMATION)

\* the AgentResponse of the early return when the agent is not initialized
NotInitializedResponse ==
    [answer |-> FALLBACK_MESSAGE, model_used |-> "none", tokens_input |-> 0,
     tokens_output |-> 0, cost_euro |-> 0, tools_used |-> <<>>,
     success |-> FALSE, fallback_used |-> FALSE,
     error |-> Some(NOT_INITIALIZED_ERROR)]

\* the AgentResponse of the try body of invoke; output is result["output"]
\* when the key is present.
NormalResponse(q, conversation_history, output, tools_used, model) ==
    LET answer == IF output = None THEN FALLBACK_MESSAGE ELSE output[1]
        tokens_input == estimate_tokens(q) + history_tokens(conversation_history)
        tokens_output == estimate_tokens(answer)
    IN [answer |-> answer,
        model_used |-> FALLBACK_ORDER[model].display_name,
        tokens_input |-> tokens_input,
        tokens_output |-> tokens_output,
        cost_euro |-> calculate_cost_euro(tokens_input, tokens_output, model),
        tools_used |-> tools_used,
        success |-> ~is_fallback(answer),
        fallback_used |-> is_fallback(answer),
        error |-> None]

\* TimeoutResponse that bills the input tokens of the query
TimeoutResponse_with_cost(q, model) ==
    [answer |-> TIMEOUT_MESSAGE,
     model_used |-> FALLBACK_ORDER[model].display_name,
     tokens_input |-> estimate_tokens(q), tokens_output |-> 0,
     cost_euro |-> calculate_cost_euro(estimate_tokens(q), 0, model),
     tools_used |-> <<>>,
     success |-> FALSE, fallback_used |-> TRUE,
     error |-> Some(TIMEOUT_ERROR)]

\* the AgentResponse of except TimeoutError
TimeoutResponse(q, model) ==
    [answer |-> TIMEOUT_MESSAGE,
     model_used |-> FALLBACK_ORDER[model].display_name,
     tokens_input |-> estimate_tokens(q), tokens_output |-> 0,
     cost_euro |-> 0, tools_used |-> <<>>,
     success |-> FALSE, fallback_used |-> TRUE,
     error |-> Some(TIMEOUT_ERROR)]

\* ErrorResponse that drops the exception text
ErrorResponse_no_text(q, model, text) ==
    [answer |-> FALLBACK_MESSAGE,
     model_used |-> IF model = None THEN "none"
                    ELSE FALLBACK_ORDER[model[1]].display_name,
     tokens_input |-> estimate_tokens(q), tokens_output |-> 0,
     cost_euro |-> 0, tools_used |-> <<>>,
     success |-> FALSE, fallback_used |-> TRUE,
     error |-> None]

\* the AgentResponse of except Exception as e; text is str(e)
ErrorResponse(q, model, text) ==
    [answer |-> FALLBACK_MESSAGE,
     model_used |-> IF model = None THEN "none"
                    ELSE FALLBACK_ORDER[model[1]].display_name,
     tokens_input |-> estimate_tokens(q), tokens_output |-> 0,
     cost_euro |-> 0, tools_used |-> <<>>,
     success |-> FALSE, fallback_used |-> TRUE,
     error |-> Some(text)]

\* invoke_try without the except Exception branch
invoke_try_reraise(q, conversation_history, model, tools_used, end) ==
    IF end.kind = "finished"
    THEN [response |-> Some(NormalResponse(q, conversation_history, end.output,
                                           tools_used, model[1])),
          escaped |-> None]
    ELSE IF end.kind = "timeout"
    THEN [response |-> Some(TimeoutResponse(q, model[1])), escaped |-> None]
    ELSE [response |-> None, escaped |-> Some("Exception")]

\* invoke_try without the except TimeoutError branch: the deadline's
\* exception, whose str() is empty, reaches except Exception
invoke_try_no_timeout_branch(q, conversation_history, model, tools_used, end) ==
    IF end.kind = "finished"
    THEN [response |-> Some(NormalResponse(q, conversation_history, end.output,
                                           tools_used, model[1])),
          escaped |-> None]
    ELSE IF end.kind = "timeout"
    THEN [response |-> Some(ErrorResponse(q, model, <<>>)), escaped |-> None]
    ELSE [response |-> Some(ErrorResponse(q, model, end.text)), escaped |-> None]

\* The try / except of invoke around the executor call: what invoke hands
\* back for each way the awaited ainvoke ends.  tools_used is the list built
\* from extract_tools_used.
invoke_try(q, conversation_history, model, tools_used, end) ==
    IF end.kind = "finished"
    THEN [response |-> Some(NormalResponse(q, conversation_history, end.output,
                                           tools_used, model[1])),
          escaped |-> None]
    ELSE IF end.kind = "timeout"
    THEN [response |-> Some(TimeoutResponse(q, model[1])), escaped |-> None]
    ELSE [response |-> Some(ErrorResponse(q, model, end.text)), escaped |-> None]

-----------------------------------------------------------------------------
(* Inputs of the agent model *)

Queries ==
    { <<"t","o","r","q","u","e"," ","v","a","l","u","e">>,
      <<"E","4","2","?">> }

Histories ==
    { <<>>,
      << [role |-> "user", content |-> <<"W","h","a","t"," ","i","s"," ","E","4","2","?">>],
         [role |-> "assistant", content |-> <<"E","4","2",":"," ","l","o","w"," ","o","i","l",".">>] >>,
      << [role |-> "system", content |-> <<"b","e"," ","b","r","i","e","f">>],
         [role |-> "user", content |-> <<"W","h","a","t"," ","i","s"," ","E","4","2","?">>] >> }

\* answers the model emits as result["output"]
Answers ==
    { <<"T","i","g","h","t","e","n"," ","t","o"," ","3","5"," ","N","m",".">>,
      <<"P","a","r","t"," ","N","O","T"," ","F","O","U","N","D"," ","i","n"," ","m","a","n","u","a","l">>,
      <<"N","o"," ","I","n","f","o","r","m","a","t","i","o","n"," ","a","v","a","i","l","a","b","l","e">>,
      <<"n","o","t","f","o","u","n","d">>,
      <<"N","o"," ","i","n","f","o">>,
      <<>>,
      FALLBACK_MESSAGE }

\* result["output"], or None when the key is absent
Outputs == {None} \cup { Some(a) : a \in Answers }

\* str(e) of the exceptions raised inside the loop
ErrTexts == { <<"c","o","n","n","e","c","t","i","o","n"," ","r","e","s","e","t">>, <<>> }

-----------------------------------------------------------------------------
(* Actions of the agent model *)

InitAgent ==
    /\ configured \in [Providers -> BOOLEAN]
    /\ constructFails \in [Candidates -> BOOLEAN]
    /\ qdrantUrl \in BOOLEAN
    /\ executor = "none"
    /\ currentModel = None
    /\ llmResult = None
    /\ pc = "idle"
    /\ query = <<>>
    /\ history = <<>>
    /\ steps = <<>>
    /\ loopEnd = [kind |-> "none"]
    /\ response = None
    /\ escaped = None
    /\ IndexIdle

\* invoke up to the await of the executor: create the agent when there is
\* none (an exception of create_agent leaves invoke), return early when the
\* agent is not initialized, else start the reason-act loop.
InvokeStart(q, h) ==
    /\ pc = "idle"
    /\ LET ca == IF executor = "none" THEN create_agent
                 ELSE [raised |-> None, executor |-> executor,
                       currentModel |-> currentModel, llmResult |-> llmResult]
       IN /\ executor' = ca.executor
          /\ currentModel' = ca.currentModel
          /\ llmResult' = ca.llmResult
          /\ escaped' = ca.raised
          /\ IF ca.raised # None
             THEN pc' = "raised" /\ response' = None
             ELSE IF ca.executor = "none" \/ ca.currentModel = None
             THEN pc' = "returned" /\ response' = Some(NotInitializedResponse)
             ELSE pc' = "running" /\ response' = None
    /\ query' = q
    /\ history' = h
    /\ steps' = <<>>
    /\ loopEnd' = [kind |-> "none"]
    /\ UNCHANGED <<configured, constructFails, qdrantUrl>>
    /\ UNCHANGED indexVars

\* one iteration of the reason-act loop that calls tool t
AgentToolCall(t) ==
    /\ pc = "running"
    /\ Len(steps) < max_iterations
    /\ Len(steps) < MaxSteps
    /\ steps' = Append(steps, t)
    /\ UNCHANGED <<configured, constructFails, qdrantUrl, executor, currentModel,
                   llmResult, pc, query, history, loopEnd, response, escaped>>
    /\ UNCHANGED indexVars

\* the rest of invoke once the awaited ainvoke has ended with `end`
InvokeEnd(end, tools_used) ==
    /\ pc = "running"
    /\ LET r == invoke_try(query, history, currentModel, tools_used, end)
       IN /\ response' = r.response
          /\ escaped' = r.escaped
          /\ pc' = IF r.escaped = None THEN "returned" ELSE "raised"
    /\ loopEnd' = end
    /\ UNCHANGED <<configured, constructFails, qdrantUrl, executor, currentModel,
                   llmResult, query, history, steps>>
    /\ UNCHANGED indexVars

\* the executor returns a result (final answer or iteration cap)
AgentFinish(output, tools_used) ==
    /\ tools_used \in ListsOfSet(extract_tools_used(steps))
    /\ InvokeEnd([kind |-> "finished", output |-> output], tools_used)

\* asyncio.wait_for raises TimeoutError after AGENT_TIMEOUT_SECONDS
AgentTimeout ==
    InvokeEnd([kind |-> "timeout"], <<>>)

\* the executor raises an exception other than TimeoutError
AgentException(text) ==
    InvokeEnd([kind |-> "exception", text |-> text], <<>>)

\* the caller has the result; the same agent object may be invoked again
NextCall ==
    /\ pc \in {"returned", "raised"}
    /\ pc' = "idle"
    /\ query' = <<>>
    /\ history' = <<>>
    /\ steps' = <<>>
    /\ loopEnd' = [kind |-> "none"]
    /\ response' = None
    /\ escaped' = None
    /\ UNCHANGED <<configured, constructFails, qdrantUrl, executor, currentModel, llmResult>>
    /\ UNCHANGED indexVars

NextAgent ==
    \/ \E q \in Queries, h \in Histories : InvokeStart(q, h)
    \/ \E t \in ToolNames : AgentToolCall(t)
    \/ \E o \in Outputs, tu \in UNION { ListsOfSet(S) : S \in SUBSET ToolNames } : AgentFinish(o, tu)
    \/ AgentTimeout
    \/ \E text \in ErrTexts : AgentException(text)
    \/ NextCall

SpecAgent == InitAgent /\ [][NextAgent]_vars

-----------------------------------------------------------------------------
(* Properties of the agent model *)

IsString(s) == \A i \in 1..Len(s) : s[i] \in STRING

\* an AgentResponse with every field of the dataclass, of the declared type
WellFormedResponse(r) ==
    /\ DOMAIN r = {"answer", "model_used", "tokens_input", "tokens_output",
                   "cost_euro", "tools_used", "success", "fallback_used", "error"}
    /\ IsString(r.answer)
    /\ r.model_used \in {FALLBACK_ORDER[i].display_name : i \in Candidates} \cup {"none"}
    /\ r.tokens_input \in Nat
    /\ r.tokens_output \in Nat
    /\ r.cost_euro \in Nat
    /\ \A i \in 1..Len(r.tools_used) : r.tools_used[i] \in ToolNames
    /\ r.success \in BOOLEAN
    /\ r.fallback_used \in BOOLEAN
    /\ Len(r.error) \in {0, 1}
    /\ r.error # None => IsString(r.error[1])

\* the candidates that are configured and constructible
Usable ==
    { i \in Candidates : configured[FALLBACK_ORDER[i].provider] /\ ~constructFails[i] }

\* sub occurs in s when letter case is ignored
ContainsIgnoreCase(s, sub) ==
    \E i \in 0..(Len(s) - Len(sub)) :
        \A k \in 1..Len(sub) : LowerChar(s[i + k]) = LowerChar(sub[k])

\* C2 as stated: no exception escapes invoke, whatever the outcome of agent
\* creation and of the reason-act loop; every call returns a well-formed
\* AgentResponse.
C2_NoExceptionEscapes ==
    /\ escaped = None
    /\ pc # "raised"
    /\ pc = "returned" => response # None /\ WellFormedResponse(response[1])

\* C2 amended: once agent creation has succeeded, every way the reason-act
\* loop ends (answer, timeout, exception) makes invoke return a well-formed
\* AgentResponse and no exception escapes; an exception escapes invoke only
\* from create_agent (LLMServiceError of the provider chain, ValueError of
\* tool construction), before the loop has started.
C2_OnlyCreationEscapes ==
    /\ escaped # None =>
          /\ pc = "raised"
          /\ executor = "none"
          /\ loopEnd.kind = "none"
          /\ escaped \in {Some("LLMServiceError"), Some("ValueError")}
          /\ response = None
    /\ pc = "raised" => escaped # None
    /\ loopEnd.kind # "none" =>
          /\ pc = "returned"
          /\ escaped = None
    /\ pc = "returned" => response # None /\ WellFormedResponse(response[1])

C2_Witness ==
    /\ pc = "returned"
    /\ loopEnd.kind = "exception"
    /\ response # None

\* C3: get_llm returns the first candidate of the catalog order that is both
\* configured and constructible, and fallback_used is true exactly when that
\* candidate is not the first of the catalog.
C3_FirstUsableReturned ==
    (llmResult # None /\ ~llmResult[1].raised) =>
        /\ llmResult[1].model \in Usable
        /\ \A j \in Usable : llmResult[1].model <= j
        /\ llmResult[1].fallback_used <=> (llmResult[1].model # 1)

C3_Witness ==
    /\ llmResult # None
    /\ ~llmResult[1].raised
    /\ llmResult[1].model = 3
    /\ llmResult[1].fallback_used
    /\ configured["anthropic"] /\ constructFails[1]
    /\ ~configured["openai"]

\* C4: get_llm raises LLMServiceError exactly when every candidate is
\* unconfigured or fails construction, and that error is what leaves invoke.
C4_RaisesIffNoneUsable ==
    llmResult # None =>
        /\ llmResult[1].raised <=> (Usable = {})
        /\ llmResult[1].raised => llmResult[1].error = "LLMServiceError"
        /\ (llmResult[1].raised /\ pc = "raised") => escaped = Some("LLMServiceError")

C4_Witness ==
    /\ llmResult # None
    /\ llmResult[1].raised
    /\ configured["openai"] /\ constructFails[2]
    /\ ~configured["anthropic"]
    /\ escaped = Some("LLMServiceError")

\* C5: when the loop completes with an answer, the response has
\* success = FALSE and fallback_used = TRUE exactly when the answer is the
\* fallback phrase or contains "not found" or "no information" in any letter
\* case, success = TRUE and fallback_used = FALSE otherwise, and no error.
C5_Classification ==
    loopEnd.kind = "finished" =>
        /\ response # None
        /\ LET r == response[1]
               degraded == \/ r.answer = FALLBACK_MESSAGE
                           \/ ContainsIgnoreCase(r.answer, NOT_FOUND)
                           \/ ContainsIgnoreCase(r.answer, NO_INFORMATION)
           IN /\ r.answer = IF loopEnd.output = None THEN FALLBACK_MESSAGE
                            ELSE loopEnd.output[1]
              /\ degraded => (~r.success /\ r.fallback_used)
              /\ ~degraded => (r.success /\ ~r.fallback_used)
              /\ r.error = None

C5_Witness ==
    /\ loopEnd.kind = "finished"
    /\ response # None
    /\ response[1].answer = <<"P","a","r","t"," ","N","O","T"," ","F","O","U","N","D"," ","i","n"," ","m","a","n","u","a","l">>
    /\ response[1].fallback_used
    /\ ~response[1].success

\* C6: when the executor call exceeds the deadline, invoke does not raise
\* and returns the timeout answer with tokens_output = 0, success = FALSE,
\* fallback_used = TRUE and error = "Timeout".
C6_TimeoutResponse ==
    loopEnd.kind = "timeout" =>
        /\ escaped = None
        /\ pc = "returned"
        /\ response # None
        /\ response[1].answer = TIMEOUT_MESSAGE
        /\ response[1].answer # FALLBACK_MESSAGE
        /\ response[1].tokens_output = 0
        /\ ~response[1].success
        /\ response[1].fallback_used
        /\ response[1].error = Some(TIMEOUT_ERROR)

C6_Witness ==
    /\ loopEnd.kind = "timeout"
    /\ response # None
    /\ steps # <<>>

\* C7: an exception other than a timeout raised in the loop is caught: the
\* response carries the fallback phrase, success = FALSE, fallback_used =
\* TRUE and the exception text as error.
C7_ExceptionResponse ==
    loopEnd.kind = "exception" =>
        /\ escaped = None
        /\ pc = "returned"
        /\ response # None
        /\ response[1].answer = FALLBACK_MESSAGE
        /\ ~response[1].success
        /\ response[1].fallback_used
        /\ response[1].error = Some(loopEnd.text)

C7_Witness ==
    /\ loopEnd.kind = "exception"
    /\ loopEnd.text # <<>>
    /\ response # None
    /\ response[1].error = Some(loopEnd.text)

-----------------------------------------------------------------------------
(* api/v1/endpoints/documents.py: upload, background processing, delete *)

\* str(e) of the exceptions the OpenAI and Qdrant clients raise
StoreErrTexts == { <<>>, <<"5","0","3">> }

\* the agent object is not used by the ingestion model
AgentIdle ==
    /\ constructFails = [i \in Candidates |-> FALSE]
    /\ executor = "none"
    /\ currentModel = None
    /\ llmResult = None
    /\ pc = "idle"
    /\ query = <<>>
    /\ history = <<>>
    /\ steps = <<>>
    /\ loopEnd = [kind |-> "none"]
    /\ response = None
    /\ escaped = None

agentObjectVars == <<constructFails, executor, currentModel, llmResult, pc, query,
                     history, steps, loopEnd, response, escaped>>

settingsVars == <<configured, qdrantUrl>>

InitIngest ==
    /\ configured \in { c \in [Providers -> BOOLEAN] : c["anthropic"] /\ c["google"] }
    /\ qdrantUrl \in BOOLEAN
    /\ AgentIdle
    /\ IndexIdle

\* the row exists in the documents table
RowExists(d) == docs[d].status \notin {"absent", "deleted"}

\* upload_document for a file that passes validate_file and whose storage
\* upload succeeds: rejects a duplicate (same organization, same content
\* hash, status not failed), else creates the row with status uploading and
\* schedules process_document_background.
Upload(d, org_id, f) ==
    /\ docs[d].status = "absent"
    /\ ~\E e \in DocIds : /\ RowExists(e)
                          /\ docs[e].org_id = org_id
                          /\ docs[e].file = f
                          /\ docs[e].status # "failed"
    /\ docs' = [docs EXCEPT ![d] = [status |-> "uploading", org_id |-> org_id, file |-> f,
                                    chunk_count |-> 0, error_message |-> None]]
    /\ job' = [job EXCEPT ![d] = [pc |-> "scheduled", org_id |-> org_id, file |-> f,
                                  result |-> None, raised |-> None]]
    /\ UNCHANGED <<points, toolOut, calls, fnCall, conversations, settingsVars, agentObjectVars>>

\* process_document_background up to the first commit: returns when the row
\* is not found, else sets status processing
JobStart(d) ==
    /\ job[d].pc = "scheduled"
    /\ IF RowExists(d)
       THEN /\ docs' = [docs EXCEPT ![d].status = "processing"]
            /\ job' = [job EXCEPT ![d].pc = "started"]
       ELSE /\ docs' = docs
            /\ job' = [job EXCEPT ![d].pc = "done"]
    /\ UNCHANGED <<points, toolOut, calls, fnCall, conversations, settingsVars, agentObjectVars>>

\* the job holds what process_document ended with
JobProcessed(d, r) ==
    /\ points' = r.points
    /\ job' = [job EXCEPT ![d].pc = "processed",
                          ![d].result = r.result,
                          ![d].raised = r.escaped]

\* the awaited processor.process_document(org_id, document_id, content, filename)
JobProcess(d, env) ==
    /\ job[d].pc = "started"
    /\ JobProcessed(d, process_document(points, job[d].org_id, d, job[d].file, env))
    /\ UNCHANGED <<docs, toolOut, calls, fnCall, conversations, settingsVars, agentObjectVars>>

\* JobFinishRow that marks every processed document indexed
JobFinishRow_always_indexed(row, j) ==
    IF j.raised # None
    THEN [row EXCEPT !.status = "failed", !.error_message = Some(j.raised[1].text)]
    ELSE [row EXCEPT !.status = "indexed",
                     !.chunk_count = j.result[1].chunk_count,
                     !.error_message = None]

\* the row update after process_document: indexed / failed from the
\* ProcessingResult, or failed with str(e) in the except Exception branch
JobFinishRow(row, j) ==
    IF j.raised # None
    THEN [row EXCEPT !.status = "failed", !.error_message = Some(j.raised[1].text)]
    ELSE IF j.result[1].success
    THEN [row EXCEPT !.status = "indexed",
                     !.chunk_count = j.result[1].chunk_count,
                     !.error_message = None]
    ELSE [row EXCEPT !.status = "failed",
                     !.error_message = j.result[1].error_message]

\* process_document_background after process_document: the final commit.
\* When the row was deleted meanwhile the commit fails, the except branch
\* finds no row and nothing is written.
JobFinish(d) ==
    /\ job[d].pc = "processed"
    /\ docs' = IF RowExists(d) THEN [docs EXCEPT ![d] = JobFinishRow(docs[d], job[d])]
               ELSE docs
    /\ job' = [job EXCEPT ![d].pc = "done"]
    /\ UNCHANGED <<points, toolOut, calls, fnCall, conversations, settingsVars, agentObjectVars>>

\* the delete_document endpoint: a DocumentProcessingError of the vector
\* store delete is logged and the row is deleted all the same; a failure to
\* build the processor or another exception leaves the endpoint before the
\* row is deleted.
DeleteDocument(d, env) ==
    /\ RowExists(d)
    /\ LET del == IF vector_store_init # None
                  THEN [points |-> points, raised |-> vector_store_init]
                  ELSE delete_document_data(points, docs[d].org_id, d, env)
       IN /\ points' = del.points
          /\ docs' = IF del.raised = None \/ del.raised[1].type = "DocumentProcessingError"
                     THEN [docs EXCEPT ![d].status = "deleted"]
                     ELSE docs
    /\ UNCHANGED <<job, toolOut, calls, fnCall, conversations, settingsVars, agentObjectVars>>

NextIngest ==
    \/ \E d \in DocIds, o \in OrgIds, f \in FileNames : Upload(d, o, f)
    \/ \E d \in DocIds : JobStart(d)
    \/ \E d \in DocIds, env \in StoreEnvs(StoreErrTexts) : JobProcess(d, env)
    \/ \E d \in DocIds : JobFinish(d)
    \/ \E d \in DocIds, env \in StoreEnvs({<<>>}) \ {[kind |-> "embed_error", text |-> <<>>]} :
          DeleteDocument(d, env)

SpecIngest == InitIngest /\ [][NextIngest]_vars

-----------------------------------------------------------------------------
(* Properties of the ingestion model *)

\* the process_document call of document d has just returned or raised
Processed(d) == job[d].pc = "processed"

\* the step in which the process_document call of document d is made
ProcessStep(d) == job[d].pc = "started" /\ job'[d].pc = "processed"

\* C8: process_document never raises; every failure of extraction, chunking
\* (empty text, empty chunk list), embedding or indexing gives success = FALSE
\* with a non-empty error_message; success = TRUE is returned only when the
\* chunks are in the index, with chunk_count the number of chunks produced.
C8_ProcessNeverRaises ==
    /\ [](\A d \in DocIds : Processed(d) =>
            /\ job[d].raised = None
            /\ job[d].result # None
            /\ LET r == job[d].result[1]
                   produced == DefaultChunks[job[d].file]
               IN /\ ~r.success =>
                        /\ r.error_message # None
                        /\ r.error_message[1] # <<>>
                        /\ r.chunk_count = 0
                  /\ r.success =>
                        /\ r.error_message = None
                        /\ produced # <<>>
                        /\ r.chunk_count = Len(produced)
                  /\ (Files[job[d].file].extracted \in {None, Some(<<>>)} \/ produced = <<>>)
                        => ~r.success)
    /\ [][\A d \in DocIds :
            (ProcessStep(d) /\ job'[d].result # None /\ job'[d].result[1].success) =>
                LET produced == DefaultChunks[job[d].file]
                IN \A i \in 1..Len(produced) :
                      /\ PointId(d, produced[i].chunk_index) \in DOMAIN points'
                      /\ points'[PointId(d, produced[i].chunk_index)].content_raw
                            = produced[i].content
                      /\ points'[PointId(d, produced[i].chunk_index)].org_id
                            = job[d].org_id]_vars

C8_Witness ==
    \E d, e \in DocIds :
        /\ Processed(d)
        /\ job[d].file = "blank"
        /\ job[d].result = Some(FailedResult(MSG_NO_CHUNKS))
        /\ job[e].pc \in {"processed", "done"}
        /\ job[e].file = "long"
        /\ job[e].result # None
        /\ job[e].result[1].success
        /\ job[e].result[1].chunk_count = 2

\* C9: a process_document attempt that does not return success = TRUE leaves
\* the vector index exactly as it was before the call.
C9_FailureWritesNothing ==
    [][\A d \in DocIds :
         (ProcessStep(d) /\ (job'[d].result = None \/ ~job'[d].result[1].success))
            => points' = points]_vars

C9_Witness ==
    \E d \in DocIds :
        /\ Processed(d)
        /\ job[d].file = "long"
        /\ job[d].result # None
        /\ ~job[d].result[1].success
        /\ StartsWith(job[d].result[1].error_message[1], MSG_UPSERT)
        /\ points # EmptyPoints

\* C10: the background job sets processing before it calls process_document;
\* afterwards the row is indexed exactly when ProcessingResult.success is
\* true (with its chunk_count and no error_message) and failed otherwise
\* (with the result's error_message); a row's status only moves uploading ->
\* processing -> indexed or failed, and never leaves indexed or failed.
C10_StatusLifecycle ==
    /\ [](\A d \in DocIds :
            /\ (job[d].pc \in {"started", "processed"} /\ RowExists(d))
                  => docs[d].status = "processing"
            /\ (RowExists(d) /\ docs[d].status = "uploading") => job[d].pc = "scheduled"
            /\ (RowExists(d) /\ docs[d].status \in {"indexed", "failed"}) =>
                  /\ job[d].pc = "done"
                  /\ job[d].result # None
                  /\ (docs[d].status = "indexed") <=> job[d].result[1].success
                  /\ docs[d].status = "indexed" =>
                        /\ docs[d].chunk_count = job[d].result[1].chunk_count
                        /\ docs[d].error_message = None
                  /\ docs[d].status = "failed" =>
                        docs[d].error_message = job[d].result[1].error_message
            /\ (RowExists(d) /\ job[d].pc = "done") => docs[d].status \in {"indexed", "failed"})
    /\ [][\A d \in DocIds :
            (docs'[d].status # docs[d].status /\ docs'[d].status # "deleted") =>
                <<docs[d].status, docs'[d].status>> \in
                    { <<"absent", "uploading">>, <<"uploading", "processing">>,
                      <<"processing", "indexed">>, <<"processing", "failed">> }]_vars

C10_Witness ==
    \E d, e \in DocIds :
        /\ docs[d].status = "indexed"
        /\ docs[d].chunk_count = 2
        /\ docs[e].status = "failed"
        /\ docs[e].error_message = Some(MSG_NO_TEXT)

-----------------------------------------------------------------------------
(* services/tools/: the four retrieval tools *)

\* Bounds of the tools model
MaxLimit == 2          \* largest limit argument the agent passes to a tool
MaxToolCalls == 1      \* tool calls of the invocation whose outputs are followed

Max(a, b) == IF a > b THEN a ELSE b
Min(a, b) == IF a < b THEN a ELSE b

\* the sequences of n distinct elements of S
DistinctSeqs(S, n) ==
    { q \in [1..n -> S] : \A i, j \in 1..n : q[i] = q[j] => i = j }

\* What Qdrant hands back for a scroll / search of at most `limit` points
\* among the ids that satisfy the filter: min(limit, number of matches) of
\* them, in the order of the index (by id for scroll, by score for search),
\* which the tools do not control.
Page(ids, limit) == DistinctSeqs(ids, Min(limit, Cardinality(ids)))

\* FieldCondition(match=MatchValue(value=v)) on a string field
MatchValue(field, v) == field = v

\* FieldCondition(match=MatchText(text=t)) on a string field that has no
\* full-text index (init_collection creates none): substring match
MatchText(field, t) == Contains(field, t)

\* the result dict VectorStoreService.search builds from a scored point
SearchResult(pts, id) ==
    [id |-> id,
     org_id |-> pts[id].org_id,
     document_id |-> pts[id].document_id,
     chunk_index |-> pts[id].chunk_index,
     page_number |-> pts[id].page_number,
     section_title |-> pts[id].section_title,
     content |-> pts[id].content_raw]

\* the query_filter of VectorStoreService.search
search_filter(payload, org_id) == MatchValue(payload.org_id, org_id)

\* VectorStoreService.search: the possible outcomes, each the exception
\* raised or the list of result dicts
search(pts, org_id, limit, env) ==
    IF env.kind = "embed_error"
    THEN { [raised |-> Some([type |-> "APIError", text |-> env.text]), results |-> <<>>] }
    ELSE IF env.kind = "unexpected_response"
    THEN { [raised |-> Some([type |-> "VectorStoreError",
                             text |-> <<"F","a","i","l","e","d"," ","t","o"," ","s","e","a","r","c","h",":"," ">> \o env.text]),
            results |-> <<>>] }
    ELSE IF env.kind = "connection_error"
    THEN { [raised |-> Some([type |-> "ResponseHandlingException", text |-> env.text]),
            results |-> <<>>] }
    ELSE { [raised |-> None,
            results |-> [i \in 1..Len(page) |-> SearchResult(pts, page[i])]] :
           page \in Page({ id \in DOMAIN pts : search_filter(pts[id], org_id) }, limit) }

\* the payload dict a tool reads from a scrolled point
ScrollResult(pts, id) ==
    [id |-> id,
     org_id |-> pts[id].org_id,
     document_id |-> pts[id].document_id,
     chunk_index |-> pts[id].chunk_index,
     page_number |-> pts[id].page_number,
     section_title |-> pts[id].section_title,
     content |-> pts[id].content_raw]

\* client.scroll(scroll_filter, limit): the possible outcomes for the ids
\* that satisfy the filter
scroll(pts, ids, limit, env) ==
    IF env.kind \in {"unexpected_response", "connection_error"}
    THEN { [raised |-> Some([type |-> "QdrantException", text |-> env.text]), results |-> <<>>] }
    ELSE { [raised |-> None,
            results |-> [i \in 1..Len(page) |-> ScrollResult(pts, page[i])]] :
           page \in Page(ids, limit) }

\* what a tool's _arun returns: kind is "results", "not_found" (the
\* explanatory string) or "error" (the descriptive error string); items are
\* the chunks rendered in the text, in order
ToolText(kind, items) == [kind |-> kind, items |-> items, raised |-> None]

\* an exception leaves the code of a tool instead of a string
ToolRaise(exc) == [kind |-> "raised", items |-> <<>>, raised |-> exc]

\* an except clause that names VectorStoreError only
arun_except_vector_store_error(out) ==
    IF out.raised # None /\ out.raised[1].type = "VectorStoreError"
    THEN ToolText("error", <<>>)
    ELSE out

\* the `except Exception as e: return f"Search error: {e!s}"` around the
\* body of every _arun
arun_except(out) ==
    IF out.raised # None THEN ToolText("error", <<>>) ELSE out

\* the try body of SemanticSearchTool._arun
semantic_search_try(pts, org_id, limit, env) ==
    { IF out.raised # None THEN ToolRaise(out.raised)
      ELSE IF out.results = <<>> THEN ToolText("not_found", <<>>)
      ELSE ToolText("results", out.results) :
      out \in search(pts, org_id, limit, env) }

\* SemanticSearchTool._arun
semantic_search(pts, org_id, limit, env) ==
    { arun_except(out) : out \in semantic_search_try(pts, org_id, limit, env) }

\* the scroll_filter of KeywordSearchTool._arun without the org_id condition
keyword_filter_any_org(payload, org_id, keyword) ==
    MatchText(payload.content_raw, keyword)

\* the scroll_filter of KeywordSearchTool._arun
keyword_filter(payload, org_id, keyword) ==
    /\ MatchText(payload.org_id, org_id)
    /\ MatchText(payload.content_raw, keyword)

\* a fallback that asks for no more candidates than results
fallback_limit_same(limit) == limit

\* the limit of the semantic search of the fallback: limit * 2
fallback_limit(limit) == limit * 2

\* the try body of KeywordSearchTool._arun; env.scroll and env.search are
\* the environments of its two index calls
keyword_search_try(pts, org_id, keyword, limit, env) ==
    UNION {
      IF sc.raised # None THEN { ToolRaise(sc.raised) }
      ELSE IF sc.results # <<>> THEN { ToolText("results", sc.results) }
      ELSE { IF se.raised # None THEN ToolRaise(se.raised)
             ELSE LET hit(r) == r.content # <<>> /\ Contains(Lower(r.content), Lower(keyword))
                      filtered_results == SelectSeq(se.results, hit)
                  IN IF filtered_results = <<>> THEN ToolText("not_found", <<>>)
                     ELSE ToolText("results", SubSeq(filtered_results, 1,
                                                    Min(limit, Len(filtered_results)))) :
             se \in search(pts, org_id, fallback_limit(limit), env.search) } :
      sc \in scroll(pts, { id \in DOMAIN pts : keyword_filter(pts[id], org_id, keyword) },
                    limit, env.scroll) }

\* KeywordSearchTool._arun
keyword_search(pts, org_id, keyword, limit, env) ==
    { arun_except(out) : out \in keyword_search_try(pts, org_id, keyword, limit, env) }

\* the 0-based positions of s at which sub starts
Occurrences(s, sub) ==
    { i \in 0..(Len(s) - Len(sub)) : SubSeq(s, i + 1, i + Len(sub)) = sub }

\* re.compile(pattern, flags) and compiled_pattern.finditer(content) for the
\* patterns of the model: [valid |-> FALSE] does not compile, [valid |->
\* TRUE, literal |-> t] matches the occurrences of the text t
regex_matches(pattern, case_insensitive, content) ==
    IF case_insensitive
    THEN Occurrences(Lower(content), Lower(pattern.literal))
    ELSE Occurrences(content, pattern.literal)

\* a scroll_filter of GrepDocumentsTool._arun without the org_id condition
grep_filter_any_org(payload, org_id) == TRUE

\* the scroll_filter of GrepDocumentsTool._arun
grep_filter(payload, org_id) == MatchValue(payload.org_id, org_id)

\* The while / for loops of GrepDocumentsTool._arun over `scanned`, the
\* batches of the scroll one after the other, from position k with
\* all_matches collected so far: stops at limit matches or at the end of
\* the scroll.
RECURSIVE grep_scan(_, _, _, _, _, _)
grep_scan(scanned, k, pattern, case_insensitive, limit, all_matches) ==
    IF ~(Len(all_matches) < limit) \/ k > Len(scanned) THEN all_matches
    ELSE IF regex_matches(pattern, case_insensitive, scanned[k].content) # {}
    THEN grep_scan(scanned, k + 1, pattern, case_insensitive, limit,
                   Append(all_matches, scanned[k]))
    ELSE grep_scan(scanned, k + 1, pattern, case_insensitive, limit, all_matches)

\* the try body of GrepDocumentsTool._arun; a pattern that does not compile
\* gives the "Invalid regex pattern" string
grep_documents_try(pts, org_id, pattern, case_insensitive, limit, env) ==
    IF ~pattern.valid THEN { ToolText("error", <<>>) }
    ELSE LET ids == { id \in DOMAIN pts : grep_filter(pts[id], org_id) } IN
         { IF sc.raised # None THEN ToolRaise(sc.raised)
           ELSE LET all_matches == grep_scan(sc.results, 1, pattern, case_insensitive,
                                             limit, <<>>)
                IN IF all_matches = <<>> THEN ToolText("not_found", <<>>)
                   ELSE ToolText("results", all_matches) :
           sc \in scroll(pts, ids, Max(Cardinality(ids), 1), env.scroll) }

\* GrepDocumentsTool._arun
grep_documents(pts, org_id, pattern, case_insensitive, limit, env) ==
    { arun_except(out) :
      out \in grep_documents_try(pts, org_id, pattern, case_insensitive, limit, env) }

\* the scroll_filter of GetDocumentSectionTool._arun; a point without a
\* section title does not match
section_filter(payload, org_id, section_title) ==
    /\ MatchValue(payload.org_id, org_id)
    /\ payload.section_title # None
    /\ MatchText(payload.section_title[1], section_title)

\* the characters of identifiers in code point order
CodeOrder ==
    <<"0","1","2","3","4","5","6","7","8","9","_",
      "a","b","c","d","e","f","g","h","i","j","k","l","m",
      "n","o","p","q","r","s","t","u","v","w","x","y","z">>

Ord(c) == CHOOSE i \in 1..Len(CodeOrder) : CodeOrder[i] = c

\* a < b for Python strings
StrLess(a, b) ==
    \E k \in 1..(Len(b)) :
        /\ \A i \in 1..(k - 1) : i <= Len(a) /\ a[i] = b[i]
        /\ k - 1 <= Len(a)
        /\ (k > Len(a) \/ Ord(a[k]) < Ord(b[k]))

\* the sort key (document_id, chunk_index) of x is less than that of y
SortKeyLess(x, y) ==
    \/ StrLess(x.document_id, y.document_id)
    \/ x.document_id = y.document_id /\ x.chunk_index < y.chunk_index

RECURSIVE InsertSorted(_, _)
InsertSorted(x, sorted) ==
    IF sorted = <<>> THEN <<x>>
    ELSE IF SortKeyLess(Head(sorted), x) THEN <<Head(sorted)>> \o InsertSorted(x, Tail(sorted))
    ELSE <<x>> \o sorted

\* points_data left as the index returned it
sort_points_data_unsorted(points_data) == points_data

\* points_data.sort(key=(document_id, chunk_index)): stable
RECURSIVE sort_points_data(_)
sort_points_data(points_data) ==
    IF points_data = <<>> THEN <<>>
    ELSE InsertSorted(Head(points_data), sort_points_data(Tail(points_data)))

\* sections_by_doc: the document ids in the order of their first chunk in
\* points_data (a dict keeps insertion order)
RECURSIVE doc_keys(_, _)
doc_keys(points_data, seen) ==
    IF points_data = <<>> THEN seen
    ELSE IF \E i \in 1..Len(seen) : seen[i] = Head(points_data).document_id
    THEN doc_keys(Tail(points_data), seen)
    ELSE doc_keys(Tail(points_data), Append(seen, Head(points_data).document_id))

\* the chunks of the groups of sections_by_doc one after the other, as the
\* output renders them: group by group, each group in the order of
\* points_data
RECURSIVE render_groups(_, _, _)
render_groups(points_data, keys, k) ==
    IF k > Len(keys) THEN <<>>
    ELSE SelectSeq(points_data, LAMBDA data : data.document_id = keys[k])
         \o render_groups(points_data, keys, k + 1)

\* the sort, the grouping and the output loop of GetDocumentSectionTool._arun
sections_output(points_data) ==
    render_groups(sort_points_data(points_data),
                  doc_keys(sort_points_data(points_data), <<>>), 1)

\* the try body of GetDocumentSectionTool._arun; the chunks are rendered
\* document by document in the sorted order
get_document_section_try(pts, org_id, section_title, document_name, env) ==
    UNION {
      IF sc.raised # None THEN { ToolRaise(sc.raised) }
      ELSE IF sc.results = <<>>
      THEN { IF se.raised # None THEN ToolRaise(se.raised)
             ELSE LET similar(r) == /\ r.section_title # None
                                    /\ r.section_title[1] # <<>>
                                    /\ Contains(Lower(r.section_title[1]), Lower(section_title))
                      filtered == SelectSeq(se.results, similar)
                  IN IF filtered = <<>> THEN ToolText("not_found", <<>>)
                     ELSE ToolText("results", sections_output(filtered)) :
             se \in search(pts, org_id, 10, env.search) }
      ELSE LET named(r) == \/ document_name = None
                           \/ document_name[1] = <<>>
                           \/ Contains(Lower(r.document_id), Lower(document_name[1]))
               points_data == SelectSeq(sc.results, named)
           IN { IF points_data = <<>> THEN ToolText("not_found", <<>>)
                ELSE ToolText("results", sections_output(points_data)) } :
      sc \in scroll(pts, { id \in DOMAIN pts : section_filter(pts[id], org_id, section_title) },
                    20, env.scroll) }

\* GetDocumentSectionTool._arun
get_document_section(pts, org_id, section_title, document_name, env) ==
    { arun_except(out) :
      out \in get_document_section_try(pts, org_id, section_title, document_name, env) }

-----------------------------------------------------------------------------
(* The retrieval tools over an index shared by the tenants *)

\* chunk lists indexed for the documents of the tools model
ToolChunkLists ==
    { << [content |-> <<"T","o","r","q","u","e"," ","3","5"," ","N","m">>, chunk_index |-> 0,
          page_number |-> Some(2), section_title |-> Some(<<"T","o","r","q","u","e">>)],
         [content |-> <<"s","e","e"," ","t","o","r","q","u","e"," ","t","a","b","l","e">>, chunk_index |-> 1,
          page_number |-> Some(3), section_title |-> Some(<<"T","o","r","q","u","e">>)] >>,
      << [content |-> <<"t","o","r","q","u","e"," ","4","0"," ","N","m">>, chunk_index |-> 0,
          page_number |-> Some(1), section_title |-> None] >> }

\* arguments the agent passes to the tools
Keywords == { <<"T","o","r","q","u","e">>, <<"N","m">>, <<"v","a","l","v","e">> }
SectionTitles == { <<"T","o","r","q","u","e">>, <<"t","o","r","q","u","e">> }
DocumentNames == { None, Some(<<"D","1">>) }
Patterns == { [valid |-> FALSE, literal |-> <<"(">>],
              [valid |-> TRUE, literal |-> <<"n","m">>],
              [valid |-> TRUE, literal |-> <<"3","5">>] }
Limits == 1..MaxLimit

\* the environments of the two index calls of a tool
ToolEnvs ==
    [scroll : { e \in StoreEnvs({<<"5","0","3">>}) : e.kind \in {"ok", "unexpected_response"} },
     search : { e \in StoreEnvs({<<"5","0","3">>}) : e.kind \in {"ok", "embed_error"} }]

\* an invocation is under way: create_agent built the executor and the
\* tools, so the settings they need are present
InitTools ==
    /\ configured = [p \in Providers |-> TRUE]
    /\ constructFails = [i \in Candidates |-> FALSE]
    /\ qdrantUrl = TRUE
    /\ executor = create_agent.executor
    /\ currentModel = create_agent.currentModel
    /\ llmResult = create_agent.llmResult
    /\ pc = "running"
    /\ query = CHOOSE q \in Queries : TRUE
    /\ history = <<>>
    /\ steps = <<>>
    /\ loopEnd = [kind |-> "none"]
    /\ response = None
    /\ escaped = None
    /\ IndexIdle

\* the organization whose document d is indexed, if any
Owners(d) == { points[id].org_id : id \in { i \in DOMAIN points : points[i].document_id = d } }

\* a document of org_id is (re)indexed
IndexChunks(d, org_id, chunks) ==
    /\ Owners(d) \subseteq {org_id}
    /\ points' = upsert_chunks(points, org_id, d, chunks, [kind |-> "ok", text |-> <<>>]).points
    /\ UNCHANGED <<agentVars, docs, job, toolOut, calls, fnCall, conversations>>

\* a document's points are removed
RemoveChunks(d, org_id) ==
    /\ Owners(d) = {org_id}
    /\ points' = delete_document(points, org_id, d, [kind |-> "ok", text |-> <<>>]).points
    /\ UNCHANGED <<agentVars, docs, job, toolOut, calls, fnCall, conversations>>

\* the reason-act loop runs one tool call at a time, up to max_iterations
ToolCallEnabled ==
    /\ pc = "running"
    /\ toolOut = None
    /\ Len(steps) < max_iterations
    /\ Len(steps) < MaxToolCalls + 1

\* the tool's string goes back to the agent loop
ToolReturns(tool, org_id, text) ==
    /\ toolOut' = Some([tool |-> tool, org_id |-> org_id,
                        kind |-> text.kind, items |-> text.items,
                        raised |-> text.raised])
    /\ UNCHANGED <<agentVars, points, docs, job, calls, fnCall, conversations>>

SemanticSearch(org_id, limit, env) ==
    /\ ToolCallEnabled
    /\ \E text \in semantic_search(points, org_id, limit, env.search) :
          ToolReturns("semantic_search", org_id, text)

KeywordSearch(org_id, keyword, limit, env) ==
    /\ ToolCallEnabled
    /\ \E text \in keyword_search(points, org_id, keyword, limit, env) :
          ToolReturns("keyword_search", org_id, text)

GrepDocuments(org_id, pattern, case_insensitive, limit, env) ==
    /\ ToolCallEnabled
    /\ \E text \in grep_documents(points, org_id, pattern, case_insensitive, limit, env) :
          ToolReturns("grep_documents", org_id, text)

GetDocumentSection(org_id, section_title, document_name, env) ==
    /\ ToolCallEnabled
    /\ \E text \in get_document_section(points, org_id, section_title, document_name, env) :
          ToolReturns("get_document_section", org_id, text)

\* the agent loop takes the tool's output as the observation of the step
ToolOutputRead ==
    /\ toolOut # None
    /\ Len(steps) < MaxToolCalls
    /\ steps' = Append(steps, toolOut[1].tool)
    /\ toolOut' = None
    /\ UNCHANGED <<configured, constructFails, qdrantUrl, executor, currentModel,
                   llmResult, pc, query, history, loopEnd, response, escaped>>
    /\ UNCHANGED <<points, docs, job, calls, fnCall, conversations>>

NextTools ==
    \/ ToolOutputRead
    \/ \E d \in DocIds, org_id \in OrgIds, chunks \in ToolChunkLists : IndexChunks(d, org_id, chunks)
    \/ \E d \in DocIds, org_id \in OrgIds : RemoveChunks(d, org_id)
    \/ \E org_id \in OrgIds, limit \in Limits, env \in ToolEnvs : SemanticSearch(org_id, limit, env)
    \/ \E org_id \in OrgIds, keyword \in Keywords, limit \in Limits, env \in ToolEnvs :
          KeywordSearch(org_id, keyword, limit, env)
    \/ \E org_id \in OrgIds, pattern \in Patterns, case_insensitive \in BOOLEAN,
          limit \in Limits, env \in ToolEnvs :
          GrepDocuments(org_id, pattern, case_insensitive, limit, env)
    \/ \E org_id \in OrgIds, section_title \in SectionTitles,
          document_name \in DocumentNames, env \in ToolEnvs :
          GetDocumentSection(org_id, section_title, document_name, env)

SpecTools == InitTools /\ [][NextTools]_vars

-----------------------------------------------------------------------------
(* Properties of the tools model *)

\* C1: whatever the index holds, every chunk a retrieval tool returns for
\* an organization was stored with that organization's org_id: no tool
\* result carries a chunk of another tenant.
C1_TenantIsolation ==
    toolOut # None =>
        \A i \in 1..Len(toolOut[1].items) : toolOut[1].items[i].org_id = toolOut[1].org_id

\* the keyword tool returned chunks to a tenant while the index held a chunk
\* of another tenant that contains the same keyword
C1_Witness ==
    /\ toolOut # None
    /\ toolOut[1].tool = "keyword_search"
    /\ toolOut[1].kind = "results"
    /\ toolOut[1].items # <<>>
    /\ \A i \in 1..Len(toolOut[1].items) :
          /\ toolOut[1].items[i].id \in DOMAIN points
          /\ Contains(toolOut[1].items[i].content, <<"N","m">>)
    /\ \E id \in DOMAIN points :
          /\ points[id].org_id # toolOut[1].org_id
          /\ Contains(points[id].content_raw, <<"N","m">>)

-----------------------------------------------------------------------------
(* VectorStoreService calls on a shared collection, interleaved *)

\* chunk lists passed to upsert_chunks
StoreChunkLists == ToolChunkLists \cup { <<>> }

OkEnv == [kind |-> "ok", text |-> <<>>]

\* a VectorStoreService exists, so its settings are present
InitStore ==
    /\ configured = [p \in Providers |-> TRUE]
    /\ qdrantUrl = TRUE
    /\ AgentIdle
    /\ IndexIdle

StoreFrame == UNCHANGED <<agentVars, docs, job, toolOut, fnCall, conversations>>

\* upsert_chunks is called: an empty list returns 0 at once, otherwise the
\* call awaits embed_batch
UpsertCall(d, org_id, chunks) ==
    /\ calls[d].pc = "idle"
    /\ Owners(d) \subseteq {org_id}
    /\ calls' = [calls EXCEPT ![d] =
                    [NoCall EXCEPT !.op = "upsert",
                                   !.pc = IF chunks = <<>> THEN "returned" ELSE "embedding",
                                   !.org_id = org_id,
                                   !.chunks = chunks,
                                   !.env = "ok"]]
    /\ points' = points
    /\ StoreFrame

\* what the call holds when one of its awaits raised under env
UpsertRaised(d, env) ==
    [calls EXCEPT ![d].pc = "raised",
                  ![d].env = env.kind,
                  ![d].raised = upsert_chunks(points, calls[d].org_id, d,
                                              calls[d].chunks, env).raised]

\* embed_batch returns the embeddings or raises
UpsertEmbedded(d, env) ==
    /\ calls[d].op = "upsert"
    /\ calls[d].pc = "embedding"
    /\ calls' = IF env.kind = "ok" THEN [calls EXCEPT ![d].pc = "sending"]
                ELSE UpsertRaised(d, env)
    /\ points' = points
    /\ StoreFrame

\* the points are built and client.upsert sends the batch: Qdrant accepts
\* the request or the client raises
UpsertRequest(d, env) ==
    /\ calls[d].op = "upsert"
    /\ calls[d].pc = "sending"
    /\ calls' = IF env.kind = "ok" THEN [calls EXCEPT ![d].pc = "writing", ![d].written = 0]
                ELSE UpsertRaised(d, env)
    /\ points' = points
    /\ StoreFrame

\* Qdrant applies the next point of the accepted batch; the points of
\* concurrent requests are applied in any interleaving
UpsertWritePoint(d) ==
    /\ calls[d].op = "upsert"
    /\ calls[d].pc = "writing"
    /\ calls[d].written < Len(calls[d].chunks)
    /\ points' = client_upsert(points,
                               build_points(calls[d].org_id, d,
                                            <<calls[d].chunks[calls[d].written + 1]>>))
    /\ calls' = [calls EXCEPT ![d].written = @ + 1]
    /\ StoreFrame

\* the awaited client.upsert returns and upsert_chunks returns len(points)
UpsertReturn(d) ==
    /\ calls[d].op = "upsert"
    /\ calls[d].pc = "writing"
    /\ calls[d].written = Len(calls[d].chunks)
    /\ calls' = [calls EXCEPT ![d].pc = "returned"]
    /\ points' = points
    /\ StoreFrame

\* the points whose payload has the org_id and the document_id
DocumentPoints(pts, org_id, d) ==
    { id \in DOMAIN pts : pts[id].org_id = org_id /\ pts[id].document_id = d }

\* delete_document_data is called and ends: Qdrant applies a delete by
\* filter as one operation
DeleteCall(d, org_id, env) ==
    /\ calls[d].pc = "idle"
    /\ points' = delete_document_data(points, org_id, d, env).points
    /\ calls' = [calls EXCEPT ![d] =
                    [NoCall EXCEPT
                        !.op = "delete",
                        !.pc = IF delete_document_data(points, org_id, d, env).raised = None
                               THEN "returned" ELSE "raised",
                        !.org_id = org_id,
                        !.removed = Cardinality(DOMAIN points) - Cardinality(DOMAIN points'),
                        !.env = env.kind,
                        !.raised = delete_document_data(points, org_id, d, env).raised]]
    /\ StoreFrame

\* the caller has the outcome of the call
CallDone(d) ==
    /\ calls[d].pc \in {"returned", "raised"}
    /\ calls' = [calls EXCEPT ![d] = NoCall]
    /\ points' = points
    /\ StoreFrame

NextStore ==
    \/ \E d \in DocIds, org_id \in OrgIds, chunks \in StoreChunkLists : UpsertCall(d, org_id, chunks)
    \/ \E d \in DocIds, env \in { e \in StoreEnvs(StoreErrTexts) : e.kind \in {"ok", "embed_error"} } :
          UpsertEmbedded(d, env)
    \/ \E d \in DocIds, env \in { e \in StoreEnvs(StoreErrTexts) : e.kind # "embed_error" } :
          UpsertRequest(d, env)
    \/ \E d \in DocIds : UpsertWritePoint(d)
    \/ \E d \in DocIds : UpsertReturn(d)
    \/ \E d \in DocIds, org_id \in OrgIds,
          env \in { e \in StoreEnvs(StoreErrTexts) : e.kind # "embed_error" } :
          DeleteCall(d, org_id, env)
    \/ \E d \in DocIds : CallDone(d)

SpecStore == InitStore /\ [][NextStore]_vars

-----------------------------------------------------------------------------
(* Properties of the vector store model *)

\* the index already holds every point of the call's chunk list, as the
\* call builds it
AlreadyIndexed(d) ==
    \A id \in DOMAIN build_points(calls[d].org_id, d, calls[d].chunks) :
        /\ id \in DOMAIN points
        /\ points[id] = build_points(calls[d].org_id, d, calls[d].chunks)[id]

\* the upsert call on d writes a point in this step
WriteStep(d) ==
    /\ calls[d].op = "upsert"
    /\ calls[d].pc = "writing"
    /\ calls'[d].written = calls[d].written + 1

\* C11: when a document is ingested again with the same content under the
\* same tenant and document id, every write of the repeated upsert lands on
\* a point id that is already there: the set of point ids (and so the point
\* count) stays what it was after the first ingestion, and so do the points.
C11_ReingestSamePoints ==
    [][\A d \in DocIds :
          (WriteStep(d) /\ AlreadyIndexed(d)) =>
              /\ DOMAIN points' = DOMAIN points
              /\ points' = points]_vars

\* a repeated upsert of a two-chunk document has written its first point
\* while the second is still the one of the earlier ingestion
C11_Witness ==
    \E d \in DocIds :
        /\ calls[d].op = "upsert"
        /\ calls[d].pc = "writing"
        /\ Len(calls[d].chunks) = 2
        /\ calls[d].written = 1
        /\ AlreadyIndexed(d)

\* C12: once upsert_chunks has returned for a document id, the points that
\* carry that document id are exactly the points of the chunk list of that
\* call, whatever was indexed under the id before.
C12_ReplacesDocumentPoints ==
    \A d \in DocIds :
        (calls[d].op = "upsert" /\ calls[d].pc = "returned") =>
            { id \in DOMAIN points : points[id].document_id = d }
                = DOMAIN build_points(calls[d].org_id, d, calls[d].chunks)

\* C13: upserts for different document ids that run at the same time do
\* not disturb each other: a write of one call changes no point of another
\* document, and when a call has returned the index holds every point of
\* its chunk list as built, exactly as if the calls had run one after the
\* other.
C13_ConcurrentUpsertsIsolated ==
    /\ [](\A d \in DocIds :
            (calls[d].op = "upsert" /\ calls[d].pc = "returned") => AlreadyIndexed(d))
    /\ [][\A d \in DocIds :
            WriteStep(d) =>
                \A id \in DOMAIN points :
                    points[id].document_id # d =>
                        id \in DOMAIN points' /\ points'[id] = points[id]]_vars

\* two upserts of one tenant for different documents are both half-way
\* through writing their points
C13_Witness ==
    \E d, e \in DocIds :
        /\ d # e
        /\ calls[d].op = "upsert" /\ calls[e].op = "upsert"
        /\ calls[d].org_id = calls[e].org_id
        /\ calls[d].pc = "writing" /\ calls[e].pc = "writing"
        /\ calls[d].written = 1 /\ Len(calls[d].chunks) = 2
        /\ calls[e].written = 1 /\ Len(calls[e].chunks) = 2

\* delete_document_data is called on d and ends in this step
DeleteStep(d) ==
    /\ calls[d].pc = "idle"
    /\ calls'[d].op = "delete"

\* C14: a delete_document_data call that the index serves removes exactly
\* the points whose payload has both the tenant id and the document id and
\* leaves every other point as it was; when there is no such point (a second
\* call, a document never indexed, another tenant's document) it changes
\* nothing, and in both cases it raises no error.
C14_DeleteExactAndIdempotent ==
    [][\A d \in DocIds :
          (DeleteStep(d) /\ calls'[d].env = "ok") =>
              /\ calls'[d].pc = "returned"
              /\ calls'[d].raised = None
              /\ points' = [ id \in (DOMAIN points)
                                      \ DocumentPoints(points, calls'[d].org_id, d)
                             |-> points[id] ]
              /\ (DocumentPoints(points, calls'[d].org_id, d) = {} => points' = points)]_vars

\* one delete removed the two points of a document, another delete found
\* nothing to remove for its tenant and returned, and the index still holds
\* the points it had to leave
C14_Witness ==
    \E d, e \in DocIds :
        /\ calls[d].op = "delete" /\ calls[d].pc = "returned" /\ calls[d].removed = 2
        /\ calls[e].op = "delete" /\ calls[e].pc = "returned" /\ calls[e].removed = 0
        /\ points # EmptyPoints

\* C15: whenever an index operation fails, here upsert_chunks at its
\* embedding call or at its Qdrant call, the exception that reaches the
\* caller is a VectorStoreError and no other kind.
C15_SingleErrorKind ==
    \A d \in DocIds :
        (calls[d].op = "upsert" /\ calls[d].pc = "raised") =>
            /\ calls[d].raised # None
            /\ calls[d].raised[1].type = "VectorStoreError"

-----------------------------------------------------------------------------
(* DocumentProcessor.chunk_text called on small texts *)

\* Bounds of the chunking model
MaxLines == 3          \* lines of an input text

\* lines of the input texts: a page marker, a heading, prose with sentence
\* and word boundaries, prose with a run of blanks, an empty line
ChunkLines ==
    { <<"[","P","a","g","e"," ","2","]">>, <<"#"," ","T">>, <<"a","b","."," ","c","d"," ","e","f">>, <<"g","h"," "," ","i","j">>, <<>> }

\* lines joined with "\n"
RECURSIVE JoinLines(_)
JoinLines(lines) ==
    IF Len(lines) = 1 THEN lines[1]
    ELSE lines[1] \o <<"\n">> \o JoinLines(Tail(lines))

ChunkTexts ==
    { <<>> } \cup
    UNION { { JoinLines(lines) : lines \in [1..n -> ChunkLines] } : n \in 1..MaxLines }

\* (chunk_size, overlap) arguments: the defaults and small windows, among
\* them overlaps of exactly chunk_size // 2, one above it, and chunk_size 0
ChunkParams ==
    { <<CHUNK_SIZE, CHUNK_OVERLAP>>, <<8, 0>>, <<6, 2>>, <<4, 3>>,
      <<4, 2>>, <<2, 1>>, <<1, 0>>, <<0, 0>> }

InitChunk ==
    /\ configured = [p \in Providers |-> TRUE]
    /\ qdrantUrl = TRUE
    /\ AgentIdle
    /\ IndexIdle

ChunkFrame == UNCHANGED <<agentVars, points, docs, job, toolOut, calls, conversations>>

\* chunk_text(text, chunk_size, overlap) is called
ChunkTextCall(text, chunk_size, overlap) ==
    /\ fnCall.fn = "none"
    /\ fnCall' = [fn |-> "chunk_text", state |-> "called", text |-> text,
                  chunk_size |-> chunk_size, overlap |-> overlap, result |-> None]
    /\ ChunkFrame

\* the call returns its chunk list
ChunkTextReturn ==
    /\ fnCall.fn = "chunk_text"
    /\ fnCall.state = "called"
    /\ fnCall.text = <<>>
          \/ chunk_loop_ends(cleaned_text(fnCall.text), fnCall.chunk_size, fnCall.overlap)
    /\ fnCall' = [fnCall EXCEPT
                    !.state = "returned",
                    !.result = Some(chunk_text(fnCall.text, fnCall.chunk_size,
                                               fnCall.overlap))]
    /\ ChunkFrame

\* the while loop comes back to a start it had before and the call never
\* returns
ChunkTextLoop ==
    /\ fnCall.fn = "chunk_text"
    /\ fnCall.state = "called"
    /\ fnCall.text # <<>>
    /\ ~chunk_loop_ends(cleaned_text(fnCall.text), fnCall.chunk_size, fnCall.overlap)
    /\ fnCall' = [fnCall EXCEPT !.state = "looping"]
    /\ ChunkFrame

\* the caller goes on (a call that loops is abandoned with its task)
FnCallDone ==
    /\ fnCall.fn # "none"
    /\ fnCall.state \in {"returned", "looping"}
    /\ fnCall' = NoFnCall
    /\ ChunkFrame

NextChunk ==
    \/ \E text \in ChunkTexts, cp \in ChunkParams : ChunkTextCall(text, cp[1], cp[2])
    \/ ChunkTextReturn
    \/ ChunkTextLoop
    \/ FnCallDone

SpecChunk == InitChunk /\ [][NextChunk]_vars

-----------------------------------------------------------------------------
(* Properties of the chunking model *)

ChunkTextReturned == fnCall.fn = "chunk_text" /\ fnCall.state = "returned"

\* the windows of the returned call
ReturnedSpans ==
    chunk_spans(cleaned_text(fnCall.text), 0, fnCall.chunk_size, fnCall.overlap,
                ChunkFuel(cleaned_text(fnCall.text), fnCall.chunk_size, fnCall.overlap))

\* the positions of the text inside a window
SpanPositions(span) == span.start .. (span.end - 1)

\* each window of spans starts overlap characters before the end of the
\* window before it and shares at most overlap positions with it
OverlapBetween(spans, overlap) ==
    \A k \in 1..(Len(spans) - 1) :
        /\ spans[k + 1].start = spans[k].end - overlap
        /\ Cardinality(SpanPositions(spans[k]) \cap SpanPositions(spans[k + 1])) <= overlap

\* C16: every chunk chunk_text returns is at most chunk_size characters
\* long, and each window starts overlap characters before the end of the
\* window before it, so two consecutive windows share at most overlap
\* characters.
C16_SizeAndOverlap ==
    ChunkTextReturned =>
        /\ \A i \in 1..Len(fnCall.result[1]) :
              Len(fnCall.result[1][i].content) <= fnCall.chunk_size
        /\ OverlapBetween(ReturnedSpans, fnCall.overlap)

\* a call with a positive overlap returned several chunks, one of them
\* exactly chunk_size characters long
C16_Witness ==
    /\ ChunkTextReturned
    /\ fnCall.overlap > 0
    /\ Len(fnCall.result[1]) >= 2
    /\ Len(ReturnedSpans) >= 2
    /\ \E i \in 1..Len(fnCall.result[1]) :
          Len(fnCall.result[1][i].content) = fnCall.chunk_size

\* the cleaned text of the returned call
ReturnedText == cleaned_text(fnCall.text)

\* `rest` is chunks i.. put one after the other, each chunk after the first
\* without up to `overlap` of its first characters (the tail of the chunk
\* before it, which it repeats)
RECURSIVE Rebuilds(_, _, _, _)
Rebuilds(chunks, overlap, i, rest) ==
    IF i > Len(chunks) THEN rest = <<>>
    ELSE \E d \in 0..(IF i = 1 THEN 0 ELSE Min(overlap, Len(chunks[i].content))) :
            /\ StartsWith(rest, Slice(chunks[i].content, d, Len(chunks[i].content)))
            /\ Rebuilds(chunks, overlap, i + 1,
                        Slice(rest, Len(chunks[i].content) - d, Len(rest)))

\* C17 as stated: the chunks, concatenated in chunk_index order with the
\* duplicated overlap removed, are the cleaned text exactly.
C17_ExactReconstruction ==
    ChunkTextReturned =>
        Rebuilds(fnCall.result[1], fnCall.overlap, 1, ReturnedText)

\* the windows that give a chunk
SpansWithContent(text, spans) ==
    SelectSeq(spans, LAMBDA span : span_content(text, span) # <<>>)

ChunkSpans == SpansWithContent(ReturnedText, ReturnedSpans)

OnlyWhitespace(s) == \A j \in 1..Len(s) : s[j] \in Whitespace

\* the chunk `content` is the window `span` of text without the whitespace
\* at the window's two ends, and holds position p of text
ChunkHolds(text, span, content, p) ==
    \E a \in span.start .. p :
    \E b \in (p + 1) .. Min(span.end, Len(text)) :
        /\ content = Slice(text, a, b)
        /\ OnlyWhitespace(Slice(text, span.start, a))
        /\ OnlyWhitespace(Slice(text, b, Min(span.end, Len(text))))

\* position p of text is in none of the chunks
InNoChunk(text, spans, chunks, p) ==
    \A i \in 1..Len(spans) : ~ChunkHolds(text, spans[i], chunks[i].content, p)

\* the chunks are the windows `spans` of text in order, and every character
\* of text that is not whitespace is in a chunk
OnlyEdgeWhitespaceMissing(text, spans, chunks) ==
    /\ Len(chunks) = Len(spans)
    /\ \A i \in 1..Len(spans) : chunks[i].chunk_index = i - 1
    /\ \A p \in 0..(Len(text) - 1) :
          text[p + 1] \notin Whitespace => ~InNoChunk(text, spans, chunks, p)

\* C17 (amended): the chunks are, in chunk_index order, the windows of the
\* cleaned text with the whitespace at their two ends removed, and every
\* character of the cleaned text that is not whitespace is in a chunk, so
\* only whitespace at the ends of a window can be missing from the chunks.
C17_OnlyEdgeWhitespaceMissing ==
    ChunkTextReturned =>
        OnlyEdgeWhitespaceMissing(ReturnedText, ChunkSpans, fnCall.result[1])

\* some whitespace of text is in none of the chunks
WhitespaceMissing(text, spans, chunks) ==
    \E p \in 0..(Len(text) - 1) :
        text[p + 1] \in Whitespace /\ InNoChunk(text, spans, chunks, p)

\* a call returned several chunks that do not give back the cleaned text:
\* whitespace at a window's end is in no chunk
C17_Witness ==
    /\ ChunkTextReturned
    /\ Len(fnCall.result[1]) >= 2
    /\ ~Rebuilds(fnCall.result[1], fnCall.overlap, 1, ReturnedText)
    /\ WhitespaceMissing(ReturnedText, ChunkSpans, fnCall.result[1])

\* the line scan of chunk_text over the first k lines of the input
ScanUpTo(k) == scan_lines(SubSeq(SplitLines(fnCall.text), 1, k), 1, 1, <<>>, <<>>)

\* the whitespace the trim removes in front of the processed text
LeadingWhitespace(s) ==
    IF OnlyWhitespace(s) THEN Len(s)
    ELSE (CHOOSE j \in 1..Len(s) :
            s[j] \notin Whitespace /\ \A h \in 1..(j - 1) : s[h] \in Whitespace) - 1

\* the offset in the cleaned text at which the content of chunk i starts
ChunkStart(i) ==
    ChunkSpans[i].start
      + LeadingWhitespace(Slice(ReturnedText, ChunkSpans[i].start, ChunkSpans[i].end))

\* the line of the input that holds offset o of the cleaned text
LineAt(o) ==
    CHOOSE k \in 1..Len(SplitLines(fnCall.text)) :
        /\ Len(ScanUpTo(k).text) > o + LeadingWhitespace(ScanUpTo(Len(SplitLines(fnCall.text))).text)
        /\ \A h \in 1..(k - 1) :
              Len(ScanUpTo(h).text) <= o + LeadingWhitespace(ScanUpTo(Len(SplitLines(fnCall.text))).text)

SectionTitle(section) == IF section = <<>> THEN None ELSE Some(section)

\* C18: every chunk records the page of the most recent [Page N] marker and
\* the title of the most recent heading before the offset at which the
\* chunk starts (a heading on the very line the chunk starts in counts
\* either way).
C18_PageAndSectionAtStart ==
    ChunkTextReturned =>
        \A i \in 1..Len(fnCall.result[1]) :
            /\ fnCall.result[1][i].page_number = Some(ScanUpTo(LineAt(ChunkStart(i))).page)
            /\ fnCall.result[1][i].section_title \in
                  { SectionTitle(ScanUpTo(LineAt(ChunkStart(i))).section),
                    SectionTitle(ScanUpTo(LineAt(ChunkStart(i)) - 1).section) }

-----------------------------------------------------------------------------
(* Properties of the retrieval tools: what reaches the agent loop *)

\* C19: whatever the arguments and whatever the index or embedding call
\* does, a tool call ends with a string for the agent loop (the results, the
\* explanatory "not found" message or an error message), never with an
\* exception.
C19_ToolsReturnStrings ==
    toolOut # None =>
        /\ toolOut[1].raised = None
        /\ toolOut[1].kind \in {"results", "not_found", "error"}

\* semantic_search gave the agent loop an error string: its index call
\* failed, since it has no other error
C19_Witness ==
    /\ toolOut # None
    /\ toolOut[1].tool = "semantic_search"
    /\ toolOut[1].kind = "error"
    /\ toolOut[1].raised = None

-----------------------------------------------------------------------------
(* DocumentProcessor.validate_file *)

\* the keys of SUPPORTED_FILE_TYPES
SupportedExtensions ==
    { <<"p","d","f">>, <<"d","o","c","x">>, <<"t","x","t">>, <<"m","d">>, <<"h","t","m","l">>, <<"h","t","m">>, <<"x","l","s","x">>, <<"c","s","v">> }

\* SUPPORTED_FILE_TYPES[extension]
SUPPORTED_FILE_TYPES(extension) ==
    CASE extension = <<"p","d","f">> -> { "application/pdf" }
      [] extension = <<"d","o","c","x">> ->
            { "application/vnd.openxmlformats-officedocument.wordprocessingml.document" }
      [] extension = <<"t","x","t">> -> { "text/plain" }
      [] extension = <<"m","d">> -> { "text/markdown", "text/x-markdown", "text/plain" }
      [] extension = <<"h","t","m","l">> -> { "text/html" }
      [] extension = <<"h","t","m">> -> { "text/html" }
      [] extension = <<"x","l","s","x">> ->
            { "application/vnd.openxmlformats-officedocument.spreadsheetml.sheet" }
      [] extension = <<"c","s","v">> -> { "text/csv", "application/csv", "text/plain" }

TierEnum == { "basic", "professional", "enterprise" }

\* TIER_LIMITS[tier]; storage_limit_mb None is unlimited
TIER_LIMITS(tier) ==
    CASE tier = "basic" ->
            [storage_limit_mb |-> Some(50), max_file_size_mb |-> 50, max_pdf_pages |-> 1000]
      [] tier = "professional" ->
            [storage_limit_mb |-> None, max_file_size_mb |-> 100, max_pdf_pages |-> 2000]
      [] tier = "enterprise" ->
            [storage_limit_mb |-> None, max_file_size_mb |-> 100, max_pdf_pages |-> 2000]

\* 1024 * 1024, the bytes of a megabyte
MB == 1024 * 1024

\* DocumentProcessor._get_extension
get_extension(filename) ==
    IF ~Contains(filename, <<".">>) THEN <<>>
    ELSE Lower(Slice(filename, RFind(filename, <<".">>, 0, Len(filename)) + 1, Len(filename)))

ValidationResult(is_valid, error_message) ==
    [is_valid |-> is_valid, error_message |-> error_message]

\* the MIME check that takes only the types listed for the extension
mime_allowed_listed_only(extension, content_type) ==
    content_type \in SUPPORTED_FILE_TYPES(extension)

\* the MIME check of validate_file
mime_allowed(extension, content_type) ==
    ~(content_type \notin SUPPORTED_FILE_TYPES(extension)
        /\ content_type # "application/octet-stream")

\* the storage check of validate_file: current_storage_mb + file_size /
\* (1024 * 1024) > storage_limit, in bytes
storage_exceeded(limits, file_size, current_storage_mb) ==
    /\ limits.storage_limit_mb # None
    /\ current_storage_mb * MB + file_size > limits.storage_limit_mb[1] * MB

\* DocumentProcessor.validate_file
validate_file(filename, file_size, content_type, tier, current_storage_mb) ==
    IF get_extension(filename) = <<>>
    THEN ValidationResult(FALSE, Some("File must have an extension"))
    ELSE IF get_extension(filename) \notin SupportedExtensions
    THEN ValidationResult(FALSE, Some("Unsupported file type"))
    ELSE IF ~mime_allowed(get_extension(filename), content_type)
    THEN ValidationResult(FALSE, Some("Invalid content type"))
    ELSE IF file_size > TIER_LIMITS(tier).max_file_size_mb * MB
    THEN ValidationResult(FALSE, Some("File too large"))
    ELSE IF storage_exceeded(TIER_LIMITS(tier), file_size, current_storage_mb)
    THEN ValidationResult(FALSE, Some("Storage limit exceeded"))
    ELSE IF Len(filename) > 255
    THEN ValidationResult(FALSE, Some("Filename too long"))
    ELSE ValidationResult(TRUE, None)

\* n characters of a file name
NameOf(n) == [i \in 1..n |-> "x"]

\* arguments of the validate_file calls
ValidateFilenames ==
    { <<"a",".","p","d","f">>, <<"A",".","P","D","F">>, <<"b",".","m","d">>, <<"c",".","e","x","e">>, <<"n","o","e","x","t">>, <<"a",".">>, <<"v","1",".","2",".","c","s","v">>,
      NameOf(251) \o <<".","t","x","t">>, NameOf(252) \o <<".","t","x","t">> }
ValidateSizes == { 0, 1, 50 * MB, 50 * MB + 1, 100 * MB, 100 * MB + 1 }
ValidateContentTypes ==
    { "application/pdf", "text/plain", "text/csv", "application/octet-stream" }
ValidateStorage == { 0, 49, 50, 51 }

\* validate_file(filename, file_size, content_type, tier, current_storage_mb)
\* is called
ValidateFileCall(filename, file_size, content_type, tier, current_storage_mb) ==
    /\ fnCall.fn = "none"
    /\ fnCall' = [fn |-> "validate_file", state |-> "called", filename |-> filename,
                  file_size |-> file_size, content_type |-> content_type, tier |-> tier,
                  current_storage_mb |-> current_storage_mb, result |-> None]
    /\ ChunkFrame

\* the call returns its ValidationResult
ValidateFileReturn ==
    /\ fnCall.fn = "validate_file"
    /\ fnCall.state = "called"
    /\ fnCall' = [fnCall EXCEPT
                    !.state = "returned",
                    !.result = Some(validate_file(fnCall.filename, fnCall.file_size,
                                                  fnCall.content_type, fnCall.tier,
                                                  fnCall.current_storage_mb))]
    /\ ChunkFrame

NextValidate ==
    \/ \E filename \in ValidateFilenames, file_size \in ValidateSizes,
          content_type \in ValidateContentTypes, tier \in TierEnum,
          current_storage_mb \in ValidateStorage :
          ValidateFileCall(filename, file_size, content_type, tier, current_storage_mb)
    \/ ValidateFileReturn
    \/ FnCallDone

SpecValidate == InitChunk /\ [][NextValidate]_vars

-----------------------------------------------------------------------------
(* Properties of validate_file *)

ValidateFileReturned == fnCall.fn = "validate_file" /\ fnCall.state = "returned"

\* s ends with suffix, letter case aside
EndsWithIgnoreCase(s, suffix) ==
    /\ Len(suffix) <= Len(s)
    /\ Lower(SubSeq(s, Len(s) - Len(suffix) + 1, Len(s))) = suffix

\* the five conditions on the arguments of the returned call
AcceptableFile ==
    /\ \E ext \in SupportedExtensions :
          /\ EndsWithIgnoreCase(fnCall.filename, <<".">> \o ext)
          /\ \/ fnCall.content_type \in SUPPORTED_FILE_TYPES(ext)
             \/ fnCall.content_type = "application/octet-stream"
    /\ fnCall.file_size <= TIER_LIMITS(fnCall.tier).max_file_size_mb * MB
    /\ \/ TIER_LIMITS(fnCall.tier).storage_limit_mb = None
       \/ fnCall.current_storage_mb * MB + fnCall.file_size
             <= TIER_LIMITS(fnCall.tier).storage_limit_mb[1] * MB
    /\ Len(fnCall.filename) <= 255

\* C20: validate_file answers is_valid = true exactly when the extension is
\* supported, the content type is one of the extension's or
\* application/octet-stream, the size is within the tier's maximum, the
\* storage limit (if the tier has one) is not exceeded and the file name has
\* at most 255 characters; every other answer carries an error message; and
\* the call changes nothing but its own result.
C20_ValidateFileDecision ==
    /\ [](ValidateFileReturned =>
            /\ fnCall.result[1].is_valid = AcceptableFile
            /\ ~fnCall.result[1].is_valid => fnCall.result[1].error_message # None)
    /\ [][ValidateFileReturn => UNCHANGED <<agentVars, points, docs, job, toolOut, calls, conversations>>]_vars

\* an accepted application/octet-stream upload at the size limit of its
\* tier, and so a refused call one step earlier or later
C20_Witness ==
    /\ ValidateFileReturned
    /\ fnCall.result[1].is_valid
    /\ fnCall.content_type = "application/octet-stream"
    /\ fnCall.file_size = TIER_LIMITS(fnCall.tier).max_file_size_mb * MB

-----------------------------------------------------------------------------
(* The retrieval tools called on a given index *)

\* the documents of the index: not indexed, or the chunks of one tenant
IndexedAs == { None } \cup { Some(<<org_id, chunks>>) : org_id \in OrgIds, chunks \in ToolChunkLists }

\* the index after the ingestion of d with the choice c
WithDocument(pts, d, c) ==
    IF c = None THEN pts
    ELSE upsert_chunks(pts, c[1][1], d, c[1][2], [kind |-> "ok", text |-> <<>>]).points

RetrievalIndexes ==
    { WithDocument(WithDocument(EmptyPoints, <<"d","1">>, c1), <<"d","2">>, c2) :
        c1 \in IndexedAs, c2 \in IndexedAs }

\* keywords of the calls: one more that matches in another letter case only
RetrievalKeywords == Keywords \cup { <<"N","M">> }

\* patterns of the grep calls: one more that matches every chunk
RetrievalPatterns ==
    Patterns \cup { [valid |-> TRUE, literal |-> <<"t","o","r","q","u","e">>] }

InitRetrieval ==
    /\ configured = [p \in Providers |-> TRUE]
    /\ qdrantUrl = TRUE
    /\ AgentIdle
    /\ points \in RetrievalIndexes
    /\ docs = [d \in DocIds |-> NoDocument]
    /\ job = [d \in DocIds |-> NoJob]
    /\ toolOut = None
    /\ calls = [d \in DocIds |-> NoCall]
    /\ fnCall = NoFnCall
    /\ conversations = NoConversations

\* a tool's _arun is called with args and returns text
ToolCalled(tool, org_id, args, env, text) ==
    /\ fnCall.fn = "none"
    /\ fnCall' = [fn |-> tool, state |-> "returned", org_id |-> org_id, args |-> args,
                  env |-> env, result |-> text]
    /\ ChunkFrame

SemanticSearchCall(org_id, limit, env) ==
    /\ fnCall.fn = "none"
    /\ \E text \in semantic_search(points, org_id, limit, env.search) :
        ToolCalled("semantic_search", org_id, [limit |-> limit], env, text)

KeywordSearchCall(org_id, keyword, limit, env) ==
    /\ fnCall.fn = "none"
    /\ \E text \in keyword_search(points, org_id, keyword, limit, env) :
        ToolCalled("keyword_search", org_id, [keyword |-> keyword, limit |-> limit], env, text)

GrepDocumentsCall(org_id, pattern, case_insensitive, limit, env) ==
    /\ fnCall.fn = "none"
    /\ \E text \in grep_documents(points, org_id, pattern, case_insensitive, limit, env) :
        ToolCalled("grep_documents", org_id,
                      [pattern |-> pattern, case_insensitive |-> case_insensitive,
                       limit |-> limit], env, text)

GetDocumentSectionCall(org_id, section_title, document_name, env) ==
    /\ fnCall.fn = "none"
    /\ \E text \in get_document_section(points, org_id, section_title, document_name, env) :
        ToolCalled("get_document_section", org_id,
                      [section_title |-> section_title, document_name |-> document_name],
                      env, text)

NextRetrieval ==
    \/ FnCallDone
    \/ \E org_id \in OrgIds, limit \in Limits, env \in ToolEnvs :
          SemanticSearchCall(org_id, limit, env)
    \/ \E org_id \in OrgIds, keyword \in RetrievalKeywords, limit \in Limits, env \in ToolEnvs :
          KeywordSearchCall(org_id, keyword, limit, env)
    \/ \E org_id \in OrgIds, pattern \in RetrievalPatterns, case_insensitive \in BOOLEAN,
          limit \in Limits, env \in ToolEnvs :
          GrepDocumentsCall(org_id, pattern, case_insensitive, limit, env)
    \/ \E org_id \in OrgIds, section_title \in SectionTitles,
          document_name \in DocumentNames, env \in ToolEnvs :
          GetDocumentSectionCall(org_id, section_title, document_name, env)

SpecRetrieval == InitRetrieval /\ [][NextRetrieval]_vars

-----------------------------------------------------------------------------
(* Properties of the retrieval tools on a given index *)

\* the ids of the tenant's chunks
TenantIds(org_id) == { id \in DOMAIN points : points[id].org_id = org_id }

\* the tenant's chunks that the pattern of the grep call matches
GrepMatching ==
    { id \in TenantIds(fnCall.org_id) :
        regex_matches(fnCall.args.pattern, fnCall.args.case_insensitive,
                      points[id].content_raw) # {} }

GrepReturned ==
    /\ fnCall.fn = "grep_documents"
    /\ fnCall.args.pattern.valid
    /\ fnCall.env.scroll.kind = "ok"

PayloadMatching ==
    { id \in TenantIds(fnCall.org_id) :
        Contains(points[id].content_raw, fnCall.args.keyword) }

\* the tenant's chunks whose raw content holds the keyword in any letter case
KeywordMatching ==
    { id \in TenantIds(fnCall.org_id) :
        Contains(Lower(points[id].content_raw), Lower(fnCall.args.keyword)) }

KeywordReturned ==
    /\ fnCall.fn = "keyword_search"
    /\ fnCall.env.scroll.kind = "ok"

\* C22: keyword_search goes to the semantic fallback exactly when the
\* payload match finds nothing (seen when the semantic search fails: the
\* call gives the error string exactly then); with payload matches it
\* returns those; in the fallback it returns at most limit chunks, all
\* holding the keyword in some letter case, as many as limit allows when the
\* tenant has no more than 2 * limit chunks to look through, and the
\* explanatory string when none remain.
C22_KeywordFallback ==
    KeywordReturned =>
        /\ fnCall.env.search.kind # "ok" =>
              ((fnCall.result.kind = "error") <=> (PayloadMatching = {}))
        /\ PayloadMatching # {} =>
              /\ fnCall.result.kind = "results"
              /\ Len(fnCall.result.items) = Min(fnCall.args.limit, Cardinality(PayloadMatching))
              /\ \A i \in 1..Len(fnCall.result.items) :
                    fnCall.result.items[i].id \in PayloadMatching
        /\ (PayloadMatching = {} /\ fnCall.env.search.kind = "ok") =>
              /\ Len(fnCall.result.items) <= fnCall.args.limit
              /\ \A i \in 1..Len(fnCall.result.items) :
                    fnCall.result.items[i].id \in KeywordMatching
              /\ Cardinality(TenantIds(fnCall.org_id)) <= 2 * fnCall.args.limit =>
                    Len(fnCall.result.items)
                        = Min(fnCall.args.limit, Cardinality(KeywordMatching))
              /\ fnCall.result.kind
                    = (IF fnCall.result.items = <<>> THEN "not_found" ELSE "results")

\* the fallback ran and kept limit chunks out of candidates of which some
\* do not hold the keyword
C22_Witness ==
    /\ KeywordReturned
    /\ fnCall.env.search.kind = "ok"
    /\ PayloadMatching = {}
    /\ fnCall.result.kind = "results"
    /\ Len(fnCall.result.items) = fnCall.args.limit
    /\ KeywordMatching # TenantIds(fnCall.org_id)

SectionReturned ==
    /\ fnCall.fn = "get_document_section"
    /\ fnCall.result.kind = "results"

\* C23: in the output of get_document_section the chunks of one document
\* stand together as one group, and inside the group they follow each other
\* in ascending chunk_index, whatever order the index gave them in.
C23_SectionGroupsOrdered ==
    SectionReturned =>
        \A i, j \in 1..Len(fnCall.result.items) :
            (i < j /\ fnCall.result.items[i].document_id = fnCall.result.items[j].document_id) =>
                /\ fnCall.result.items[i].chunk_index < fnCall.result.items[j].chunk_index
                /\ \A k \in i..j :
                      fnCall.result.items[k].document_id = fnCall.result.items[i].document_id

\* the section of two documents was rendered, one of them with two chunks
C23_Witness ==
    /\ SectionReturned
    /\ \E i, j, k \in 1..Len(fnCall.result.items) :
          /\ fnCall.result.items[i].document_id = fnCall.result.items[j].document_id
          /\ fnCall.result.items[i].chunk_index < fnCall.result.items[j].chunk_index
          /\ fnCall.result.items[k].document_id # fnCall.result.items[i].document_id

-----------------------------------------------------------------------------
(* ConversationService: the history kept per phone number *)

\* Bounds of the conversation model
MaxAdded == 6          \* messages added over all phone numbers
MaxHistoryLimit == 6   \* largest limit passed to get_history

\* conversation.MAX_CONVERSATION_MESSAGES
MAX_CONVERSATION_MESSAGES == 5

Roles == { "user", "assistant" }
MessageContents == { "q", "a" }

\* ConversationMessage(role, content).to_dict(), without the timestamp
message_dict(role, content) == [role |-> role, content |-> content]

\* `if len(messages) > MAX_CONVERSATION_MESSAGES: messages =
\* messages[-MAX_CONVERSATION_MESSAGES:]`
trim_messages(messages) ==
    IF Len(messages) > MAX_CONVERSATION_MESSAGES
    THEN Slice(messages, -MAX_CONVERSATION_MESSAGES, Len(messages))
    ELSE messages

\* ConversationService.add_message on the row `conv` of a phone number: the
\* row afterwards
add_message(conv, role, content) ==
    [state |-> IF conv.state # None
               THEN Some(trim_messages(Append(conv.state[1], message_dict(role, content))))
               ELSE Some(<< message_dict(role, content) >>),
     added |-> Append(conv.added, message_dict(role, content))]

\* ConversationService.add_exchange
add_exchange(conv, user_message, assistant_message) ==
    add_message(add_message(conv, "user", user_message), "assistant", assistant_message)

\* ConversationService.get_history; db_ok is FALSE when the query raises
get_history(conv, limit, db_ok) ==
    IF ~db_ok THEN <<>>
    ELSE IF conv.state = None \/ conv.state[1] = <<>> THEN <<>>
    ELSE Slice(conv.state[1], -limit, Len(conv.state[1]))

\* ConversationService.clear_history
clear_history(conv) ==
    [conv EXCEPT !.state = IF conv.state # None THEN Some(<<>>) ELSE None,
                 !.added = <<>>]

\* messages added so far over all phone numbers
RECURSIVE AddedCount(_)
AddedCount(phones) ==
    IF phones = {} THEN 0
    ELSE LET p == CHOOSE x \in phones : TRUE
         IN Len(conversations[p].added) + AddedCount(phones \ {p})

ConversationFrame == UNCHANGED <<agentVars, points, docs, job, toolOut, calls>>

AddMessage(phone_number, role, content) ==
    /\ fnCall.fn = "none"
    /\ AddedCount(PhoneNumbers) < MaxAdded
    /\ conversations' = [conversations EXCEPT
                           ![phone_number] = add_message(@, role, content)]
    /\ UNCHANGED fnCall
    /\ ConversationFrame

AddExchange(phone_number, user_message, assistant_message) ==
    /\ fnCall.fn = "none"
    /\ AddedCount(PhoneNumbers) + 1 < MaxAdded
    /\ conversations' = [conversations EXCEPT
                           ![phone_number] = add_exchange(@, user_message, assistant_message)]
    /\ UNCHANGED fnCall
    /\ ConversationFrame

ClearHistory(phone_number) ==
    /\ fnCall.fn = "none"
    /\ conversations[phone_number].added # <<>>
    /\ conversations' = [conversations EXCEPT ![phone_number] = clear_history(@)]
    /\ UNCHANGED fnCall
    /\ ConversationFrame

GetHistory(phone_number, limit, db_ok) ==
    /\ fnCall.fn = "none"
    /\ fnCall' = [fn |-> "get_history", state |-> "returned",
                  phone_number |-> phone_number, limit |-> limit, db_ok |-> db_ok,
                  result |-> get_history(conversations[phone_number], limit, db_ok)]
    /\ UNCHANGED conversations
    /\ ConversationFrame

\* the caller of get_history goes on
GetHistoryDone ==
    /\ fnCall.fn = "get_history"
    /\ fnCall' = NoFnCall
    /\ UNCHANGED conversations
    /\ ConversationFrame

NextConversation ==
    \/ \E p \in PhoneNumbers, role \in Roles, content \in MessageContents :
          AddMessage(p, role, content)
    \/ \E p \in PhoneNumbers, u \in MessageContents, a \in MessageContents :
          AddExchange(p, u, a)
    \/ \E p \in PhoneNumbers : ClearHistory(p)
    \/ \E p \in PhoneNumbers, limit \in 0..MaxHistoryLimit, db_ok \in BOOLEAN :
          GetHistory(p, limit, db_ok)
    \/ GetHistoryDone

SpecConversation == InitChunk /\ [][NextConversation]_vars

-----------------------------------------------------------------------------
(* Properties of the conversation history *)

\* the last n elements of s, all of s when it has fewer
LastOf(s, n) == SubSeq(s, Len(s) - Min(n, Len(s)) + 1, Len(s))

\* the stored messages of a phone number
StoredMessages(p) ==
    IF conversations[p].state = None THEN <<>> ELSE conversations[p].state[1]

GetHistoryReturned == fnCall.fn = "get_history" /\ fnCall.state = "returned"

\* C24: the stored history of every phone number is the last (at most 5)
\* messages added, in the order they were added; get_history returns at
\* most limit messages, the most recent of the stored ones, most recent
\* last, and never more than 5.
C24_HistoryCapped ==
    /\ \A p \in PhoneNumbers :
          /\ Len(StoredMessages(p)) <= 5
          /\ StoredMessages(p) = LastOf(conversations[p].added, 5)
    /\ GetHistoryReturned =>
          /\ Len(fnCall.result) <= fnCall.limit
          /\ Len(fnCall.result) <= 5
          /\ fnCall.db_ok =>
                fnCall.result = LastOf(StoredMessages(fnCall.phone_number), fnCall.limit)

-----------------------------------------------------------------------------
(* Properties of the agent model: usage reporting *)

\* the names in a tools_used list
NamesOf(tools_used) == { tools_used[i] : i \in 1..Len(tools_used) }

\* no name twice in a tools_used list
EachOnce(tools_used) ==
    \A i, j \in 1..Len(tools_used) : tools_used[i] = tools_used[j] => i = j

\* the tools invoked by the reason-act loop of the query
Invoked == { steps[i] : i \in 1..Len(steps) }

\* C25 as stated: however the query ends, tools_used lists the distinct
\* tools the loop invoked, each once.
C25_ToolsUsedAllPaths ==
    (pc = "returned" /\ loopEnd.kind # "none") =>
        /\ NamesOf(response[1].tools_used) = Invoked
        /\ EachOnce(response[1].tools_used)

\* C25 (amended): when the loop ends with a result (final answer or
\* iteration cap), tools_used lists the distinct tools the loop invoked, each
\* once; when it ends by timeout or exception, tools_used is empty whatever
\* tools were invoked before.
C25_ToolsUsedOnCompletion ==
    /\ (pc = "returned" /\ loopEnd.kind = "finished") =>
          /\ NamesOf(response[1].tools_used) = Invoked
          /\ EachOnce(response[1].tools_used)
    /\ (pc = "returned" /\ loopEnd.kind \in {"timeout", "exception"}) =>
          response[1].tools_used = <<>>

\* a query that called two different tools ended with a result
C25_Witness ==
    /\ pc = "returned"
    /\ loopEnd.kind = "finished"
    /\ Cardinality(Invoked) = 2
    /\ Len(response[1].tools_used) = 2

\* the reason get_llm's loop has for skipping candidate j: its provider has
\* no credential, or building its client raised
SkipReason(j) ==
    IF ~is_provider_configured(FALLBACK_ORDER[j].provider)
    THEN [kind |-> "not configured", model |-> j]
    ELSE [kind |-> "error", model |-> j]

\* C26: when get_llm returns the primary candidate its fallback_reason is
\* null; when it returns a later candidate the fallback_reason is non-null
\* and records the skip reason of every earlier candidate.
C26_ReasonRecordsEverySkip ==
    (llmResult # None /\ ~llmResult[1].raised) =>
        IF llmResult[1].model = 1
        THEN llmResult[1].fallback_reason = None
        ELSE /\ llmResult[1].fallback_reason # None
             /\ \A j \in 1..(llmResult[1].model - 1) :
                    llmResult[1].fallback_reason[1] = SkipReason(j)

\* the earlier candidates of a returned candidate whose construction raised
RaisedBefore(model) ==
    { j \in 1..(model - 1) :
        is_provider_configured(FALLBACK_ORDER[j].provider) /\ ~create_llm_ok(j) }

\* C26 (amended): when get_llm returns the primary candidate its
\* fallback_reason is null; when it returns a later candidate the
\* fallback_reason is non-null and records the skip reason of exactly one
\* earlier candidate: the last earlier candidate whose construction raised,
\* or, when none raised, the primary candidate's missing credential.  A
\* missing credential of a non-primary candidate is never recorded.
C26_ReasonOfOneSkip ==
    (llmResult # None /\ ~llmResult[1].raised) =>
        IF llmResult[1].model = 1
        THEN llmResult[1].fallback_reason = None
        ELSE /\ llmResult[1].fallback_reason # None
             /\ IF RaisedBefore(llmResult[1].model) # {}
                THEN LET last == CHOOSE j \in RaisedBefore(llmResult[1].model) :
                                    \A k \in RaisedBefore(llmResult[1].model) : k <= j
                     IN llmResult[1].fallback_reason[1] = [kind |-> "error", model |-> last]
                ELSE llmResult[1].fallback_reason[1] = [kind |-> "not configured", model |-> 1]

\* the third candidate is returned after the primary's construction raised
\* and the second candidate had no credential
C26_Witness ==
    /\ llmResult # None
    /\ ~llmResult[1].raised
    /\ llmResult[1].model = 3
    /\ RaisedBefore(3) = {1}
    /\ ~is_provider_configured(FALLBACK_ORDER[2].provider)
    /\ llmResult[1].fallback_reason = Some([kind |-> "error", model |-> 1])

\* the points of the index that carry document id d
PointsOfDocument(d) == { id \in DOMAIN points : points[id].document_id = d }

\* C27: once the delete_document endpoint has completed for a document (its
\* row is deleted), no point with that document id is in the vector index,
\* now or later, whatever the background ingestion job of the document does
\* and however the vector-store delete call ended.
C27_NoPointsAfterDelete ==
    \A d \in DocIds : docs[d].status = "deleted" => PointsOfDocument(d) = {}

\* the same, only for deletes whose vector-store call succeeded: what is
\* left is the background job writing after the delete
C27_NoPointsAddedAfterDelete ==
    [][\A d \in DocIds :
          docs[d].status = "deleted" => PointsOfDocument(d)' \subseteq PointsOfDocument(d)]_vars

C28_TokensWhenAllInjected ==
    (/\ pc = "returned" /\ loopEnd.kind = "finished"
     /\ Len(format_chat_history(history)) = Len(history)) =>
        /\ response[1].tokens_input
             = (Len(query) \div 4) + history_tokens(format_chat_history(history))
        /\ response[1].tokens_output = Len(response[1].answer) \div 4
        /\ response[1].cost_euro
             = calculate_cost_euro(response[1].tokens_input,
                                   response[1].tokens_output, currentModel[1])

\* the call's arguments satisfy 0 <= overlap <= chunk_size // 2
OverlapWithinHalf ==
    /\ fnCall.fn = "chunk_text"
    /\ 0 <= fnCall.overlap
    /\ fnCall.overlap <= fnCall.chunk_size \div 2

\* the starts of the windows strictly increase
StartsIncrease(spans) ==
    \A k \in 1..(Len(spans) - 1) : spans[k + 1].start > spans[k].start

\* some window starts one character after the window before it
LeastProgress(spans) ==
    \E k \in 1..(Len(spans) - 1) : spans[k + 1].start = spans[k].start + 1

\* C29 as stated: chunk_text terminates for every input whenever
\* 0 <= overlap <= chunk_size // 2: the call never stays in its while loop,
\* and the window starts of a call strictly increase.
C29_TerminatesWithinHalf ==
    OverlapWithinHalf =>
        /\ fnCall.state # "looping"
        /\ fnCall.state = "returned" => StartsIncrease(ReturnedSpans)

\* C29 (amended): chunk_text terminates for every input text whenever
\* chunk_size >= 1 and 0 <= overlap <= chunk_size // 2, and the window
\* starts of such a call strictly increase.
C29_TerminatesPositiveSize ==
    (OverlapWithinHalf /\ fnCall.chunk_size >= 1) =>
        /\ fnCall.state # "looping"
        /\ fnCall.state = "returned" => StartsIncrease(ReturnedSpans)

\* a call with overlap = chunk_size // 2 > 0 returned after a window whose
\* successor starts one character after it, the least progress there is
C29_Witness ==
    /\ ChunkTextReturned
    /\ fnCall.overlap > 0
    /\ fnCall.overlap = fnCall.chunk_size \div 2
    /\ LeastProgress(ReturnedSpans)

\* C30: in every AgentResponse that invoke returns once the agent has been
\* created, success is the negation of fallback_used and error is non-null
\* only when success is false; on the timeout and exception paths
\* tokens_output is 0, cost_euro is 0 and tools_used is empty.
C30_ResponseFlagsConsistent ==
    (pc = "returned" /\ executor = "set") =>
        /\ response # None
        /\ response[1].success = ~response[1].fallback_used
        /\ response[1].error # None => ~response[1].success
        /\ loopEnd.kind \in {"timeout", "exception"} =>
              /\ response[1].tokens_output = 0
              /\ response[1].cost_euro = 0
              /\ response[1].tools_used = <<>>

\* a query that had called a tool timed out: the response counts the input
\* tokens of the query and bills nothing
C30_Witness ==
    /\ pc = "returned"
    /\ executor = "set"
    /\ loopEnd.kind = "timeout"
    /\ steps # <<>>
    /\ response # None
    /\ response[1].tokens_input > 0
    /\ response[1].cost_euro = 0
    /\ response[1].tools_used = <<>>
    /\ response[1].error # None

====
